---- MODULE Spec2Model ----
(***************************************************************************)
(* Commit-message generation of the kilocode extension:                    *)
(*   GitExtensionService  (src/unnamed/part_000)  the context assembler    *)
(*   CommitMessageProvider (src/unnamed/part_001) the orchestrator         *)
(*                                                                         *)
(* Text is a sequence of one-character strings, so that trim, split and    *)
(* the regular expressions of the source are computed character by         *)
(* character.  Str flattens such a sequence into a TLA+ string.  The       *)
(* backtick cannot be written inside a TLA+ string literal; it is the      *)
(* character BT.  The white-space characters outside ASCII text (form      *)
(* feed, vertical tab, no-break space, ...) are named the same way.        *)
(*                                                                         *)
(* A call that may throw returns a completion: Ok(v) or Throw(e), where e  *)
(* is the thrown value, [isError, message] (isError: `instanceof Error`).  *)
(***************************************************************************)
EXTENDS Integers, Sequences, FiniteSets, TLC

\* ------------------------------------------------------------------ text

BT == "<bt>"
NL == "\n"
Null == "<null>"

Ok(v) == [ok |-> TRUE, val |-> v]
Throw(e) == [ok |-> FALSE, err |-> e]
Error(m) == [isError |-> TRUE, message |-> m]
\* a thrown value that is not an Error object: a rejected plain object
\* {message: v}, as an HTTP client may reject with
NonError(v) == [isError |-> FALSE, message |-> v]

Last(s) == s[Len(s)]
Front(s) == SubSeq(s, 1, Len(s) - 1)

RECURSIVE Str(_)
Str(s) == IF s = <<>> THEN "" ELSE Head(s) \o Str(Tail(s))

\* form feed U+000C, vertical tab U+000B, no-break space U+00A0, byte order
\* mark U+FEFF
FF == "<ff>"
VT == "<vt>"
NBSP == "<nbsp>"
BOM == "<feff>"

\* the other space separators and line terminators of Unicode: U+1680,
\* U+2000 to U+200A, U+2028, U+2029, U+202F, U+205F, U+3000
UnicodeSpaces ==
    {"<u1680>", "<u2000>", "<u2001>", "<u2002>", "<u2003>", "<u2004>",
     "<u2005>", "<u2006>", "<u2007>", "<u2008>", "<u2009>", "<u200a>",
     "<u2028>", "<u2029>", "<u202f>", "<u205f>", "<u3000>"}

\* the characters String.prototype.trim strips: WhiteSpace and
\* LineTerminator of ECMAScript
WhiteSpace == {" ", "\t", "\n", "\r", FF, VT, NBSP, BOM} \cup UnicodeSpaces

RECURSIVE TrimStart(_)
TrimStart(s) ==
    IF s # <<>> /\ Head(s) \in WhiteSpace THEN TrimStart(Tail(s)) ELSE s

RECURSIVE TrimEnd(_)
TrimEnd(s) ==
    IF s # <<>> /\ Last(s) \in WhiteSpace THEN TrimEnd(Front(s)) ELSE s

Trim(s) == TrimEnd(TrimStart(s))

\* String.prototype.split(sep) for a one-character separator:
\* "a\nb\n" gives <<"a", "b", "">>, "" gives <<"">>
RECURSIVE Split(_, _)
Split(s, sep) ==
    IF \E i \in 1..Len(s) : s[i] = sep
    THEN LET i == CHOOSE k \in 1..Len(s) :
                      s[k] = sep /\ \A j \in 1..(k - 1) : s[j] # sep
         IN  <<SubSeq(s, 1, i - 1)>> \o Split(SubSeq(s, i + 1, Len(s)), sep)
    ELSE <<s>>

\* Array.prototype.join(sep)
RECURSIVE Join(_, _)
Join(parts, sep) ==
    IF parts = <<>> THEN <<>>
    ELSE IF Len(parts) = 1 THEN parts[1]
    ELSE parts[1] \o <<sep>> \o Join(Tail(parts), sep)

RECURSIVE SelectSeqTrimmed(_)
\* lines.filter(line => line.trim()): the lines that are not blank
SelectSeqTrimmed(lines) ==
    IF lines = <<>> THEN <<>>
    ELSE IF Trim(Head(lines)) # <<>>
         THEN <<Head(lines)>> \o SelectSeqTrimmed(Tail(lines))
         ELSE SelectSeqTrimmed(Tail(lines))

\* ------------------------------------------------------------ path.join

\* normalizeString of node's posix path module, on the segments of a path:
\* empty and "." segments are dropped, ".." removes the segment before it
\* (above the root of an absolute path it is dropped).
RECURSIVE NormalizeSegments(_, _)
NormalizeSegments(segs, acc) ==
    IF segs = <<>> THEN acc
    ELSE LET seg == Head(segs) IN
         IF seg = <<>> \/ seg = <<".">>
         THEN NormalizeSegments(Tail(segs), acc)
         ELSE IF seg = <<".", ".">>
         THEN NormalizeSegments(Tail(segs),
                                IF acc = <<>> THEN acc ELSE Front(acc))
         ELSE NormalizeSegments(Tail(segs), Append(acc, seg))

\* path.posix.normalize of an absolute path
Normalize(p) ==
    LET body == Join(NormalizeSegments(Split(p, "/"), <<>>), "/")
        trailing == p # <<>> /\ Last(p) = "/"
    IN  IF body = <<>> THEN <<"/">>
        ELSE <<"/">> \o body \o (IF trailing THEN <<"/">> ELSE <<>>)

\* path.join(root, rel) for an absolute root: empty arguments are skipped,
\* the others are joined by "/" and the result is normalized
PathJoin(root, rel) ==
    IF rel = <<>> THEN Normalize(root) ELSE Normalize(root \o <<"/">> \o rel)

\* ------------------------------------------------- GitExtensionService

\* the result object of spawnSync("git", args, ...):
\* error (the process could not be launched) or an exit status with output
SpawnFailed == [error |-> TRUE, status |-> -1, stdout |-> <<>>, stderr |-> ""]
Exited(code, out) ==
    [error |-> FALSE, status |-> code, stdout |-> out, stderr |-> "fatal"]

SpawnGitWithArgs(result) ==
    IF result.error THEN Throw(Error("spawnSync git ENOENT"))
    ELSE IF result.status # 0
    THEN Throw(Error("Git command failed with status "
                     \o ToString(result.status) \o ": " \o result.stderr))
    ELSE Ok(result.stdout)

\* variant: the switch without its "U" case
GetChangeStatusFromCode_NoUpdated(code) ==
    CASE code = <<"M">> -> "Modified"
      [] code = <<"A">> -> "Added"
      [] code = <<"D">> -> "Deleted"
      [] code = <<"R">> -> "Renamed"
      [] code = <<"C">> -> "Copied"
      [] code = <<"?">> -> "Untracked"
      [] OTHER -> "Unknown"

GetChangeStatusFromCode(code) ==
    CASE code = <<"M">> -> "Modified"
      [] code = <<"A">> -> "Added"
      [] code = <<"D">> -> "Deleted"
      [] code = <<"R">> -> "Renamed"
      [] code = <<"C">> -> "Copied"
      [] code = <<"U">> -> "Updated"
      [] code = <<"?">> -> "Untracked"
      [] OTHER -> "Unknown"

\* variant: the rest of the line joined to the root without trimming it
ParseLine_PathNotTrimmed(workspaceRoot, line) ==
    IF Len(line) < 2 THEN <<>>
    ELSE LET statusCode == Trim(SubSeq(line, 1, 1))
             filePath == SubSeq(line, 2, Len(line))
         IN  <<[filePath |-> Str(PathJoin(workspaceRoot, filePath)),
                status |-> GetChangeStatusFromCode(statusCode)]>>

\* variant: no `line.length < 2` test
ParseLine_NoLengthTest(workspaceRoot, line) ==
    LET statusCode == Trim(SubSeq(line, 1, 1))
        filePath == Trim(SubSeq(line, 2, Len(line)))
    IN  <<[filePath |-> Str(PathJoin(workspaceRoot, filePath)),
           status |-> GetChangeStatusFromCode(statusCode)]>>

\* one iteration of the loop over the non-blank lines
ParseLine(workspaceRoot, line) ==
    IF Len(line) < 2 THEN <<>>
    ELSE LET statusCode == Trim(SubSeq(line, 1, 1))
             filePath == Trim(SubSeq(line, 2, Len(line)))
         IN  <<[filePath |-> Str(PathJoin(workspaceRoot, filePath)),
                status |-> GetChangeStatusFromCode(statusCode)]>>

RECURSIVE ParseLines(_, _)
ParseLines(workspaceRoot, lines) ==
    IF lines = <<>> THEN <<>>
    ELSE ParseLine(workspaceRoot, Head(lines))
         \o ParseLines(workspaceRoot, Tail(lines))

\* gatherChanges(options) of the service bound to workspaceRoot, where
\* `result` is what spawnSync gives for the status query
GatherChanges(workspaceRoot, result) ==
    LET statusOutput == SpawnGitWithArgs(result) IN
    IF ~statusOutput.ok THEN Ok(<<>>)
    ELSE IF Trim(statusOutput.val) = <<>> THEN Ok(<<>>)
    ELSE Ok(ParseLines(workspaceRoot,
                       SelectSeqTrimmed(Split(statusOutput.val, NL))))

\* path.relative(from, to) for two normalized absolute paths
RECURSIVE CommonPrefixLen(_, _)
CommonPrefixLen(a, b) ==
    IF a # <<>> /\ b # <<>> /\ Head(a) = Head(b)
    THEN 1 + CommonPrefixLen(Tail(a), Tail(b)) ELSE 0

PathSegments(p) == NormalizeSegments(Split(p, "/"), <<>>)

PathRelative(from, to) ==
    LET a == PathSegments(from)
        b == PathSegments(to)
        k == CommonPrefixLen(a, b)
        ups == [i \in 1..(Len(a) - k) |-> <<".", ".">>]
    IN  Join(ups \o SubSeq(b, k + 1, Len(b)), "/")

\* shouldExcludeLockFile of ./exclusionUtils: the base name of the path is one
\* of the well-known lockfile names (exact, case-sensitive)
LockFileNames ==
    { <<"p", "a", "c", "k", "a", "g", "e", "-", "l", "o", "c", "k", ".",
        "j", "s", "o", "n">>,
      <<"y", "a", "r", "n", ".", "l", "o", "c", "k">>,
      <<"p", "n", "p", "m", "-", "l", "o", "c", "k", ".", "y", "a", "m", "l">> }

BaseName(p) == Last(Split(p, "/"))

ShouldExcludeLockFile(filePath) == BaseName(filePath) \in LockFileNames

\* lines.map(line => line.trim()).filter(line => line.length > 0)
RECURSIVE TrimmedNonEmpty(_)
TrimmedNonEmpty(lines) ==
    IF lines = <<>> THEN <<>>
    ELSE IF Trim(Head(lines)) # <<>>
         THEN <<Trim(Head(lines))>> \o TrimmedNonEmpty(Tail(lines))
         ELSE TrimmedNonEmpty(Tail(lines))

\* What the repository and the ignore-rule evaluator answer (env):
\*   nameOnly, summary, branch, log   the spawnSync results of the four queries
\*   diff[f]      the spawnSync result of the single-file diff of f
\*   access[p]    validateAccess(p): "allow", "deny" or "throw"

\* percentage = (processedFiles / files.length) * 100, kept as the fraction
Percentage(processedFiles, total) == [num |-> processedFiles * 100, den |-> total]

\* the body of `for (const filePath of files)`; st.thrown is set when
\* getGitDiff throws, which leaves the loop
DiffLoopBody(workspaceRoot, hasController, staged, onProgress, env, total, st, filePath) ==
    LET relativeFilePath ==
            PathRelative(workspaceRoot, PathJoin(workspaceRoot, filePath))
        answer == env.access[Str(relativeFilePath)]
        isValidFile ==
            IF hasController
            THEN (IF answer = "throw" THEN TRUE ELSE answer = "allow")
            ELSE TRUE
        wanted == isValidFile /\ ~ShouldExcludeLockFile(filePath)
        diff == SpawnGitWithArgs(env.diff[Str(filePath)])
        validated == IF hasController
                     THEN Append(st.validated, Str(relativeFilePath))
                     ELSE st.validated
    IN  IF wanted /\ ~diff.ok
        THEN [st EXCEPT !.thrown = TRUE,
                        !.validated = validated,
                        !.fetched = Append(st.fetched, Str(filePath))]
        ELSE [st EXCEPT
                !.validated = validated,
                !.fetched = IF wanted THEN Append(st.fetched, Str(filePath))
                            ELSE st.fetched,
                !.diffs = IF wanted THEN Append(st.diffs, Trim(diff.val))
                          ELSE st.diffs,
                !.processedFiles = st.processedFiles + 1,
                !.progress =
                    IF onProgress /\ total > 0
                    THEN Append(st.progress,
                                Percentage(st.processedFiles + 1, total))
                    ELSE st.progress]

RECURSIVE DiffLoop(_, _, _, _, _, _, _, _)
DiffLoop(workspaceRoot, hasController, staged, onProgress, env, total, st, files) ==
    IF files = <<>> \/ st.thrown THEN st
    ELSE DiffLoop(workspaceRoot, hasController, staged, onProgress, env, total,
                  DiffLoopBody(workspaceRoot, hasController, staged,
                               onProgress, env, total, st, Head(files)),
                  Tail(files))

\* getDiffForChanges(options): ret is the completion; files, validated, fetched
\* and progress are what the call did (the parsed file list, the paths given to
\* validateAccess, the files given to getGitDiff, the onProgress values)
GetDiffForChanges(workspaceRoot, hasController, staged, onProgress, env) ==
    LET names == SpawnGitWithArgs(env.nameOnly)
        files == IF names.ok THEN TrimmedNonEmpty(Split(names.val, NL))
                 ELSE <<>>
        st0 == [diffs |-> <<>>, processedFiles |-> 0, progress |-> <<>>,
                fetched |-> <<>>, validated |-> <<>>, thrown |-> FALSE]
        st == DiffLoop(workspaceRoot, hasController, staged, onProgress, env,
                       Len(files), st0, files)
    IN  [ret |-> IF ~names.ok \/ st.thrown THEN Ok(<<>>)
                 ELSE Ok(Join(st.diffs, NL)),
         files |-> files,
         validated |-> st.validated,
         fetched |-> st.fetched,
         progress |-> st.progress]

Fence == BT \o BT \o BT
ChangeType(staged) == IF staged THEN "Staged" ELSE "Unstaged"
DiffHeading(staged) ==
    "### Full Diff of " \o ChangeType(staged) \o " Changes\n" \o Fence \o "diff\n"
SummaryHeading == "### Statistical Summary\n" \o Fence \o "\n"
SectionEnd == "\n" \o Fence \o "\n\n"
NoDiffAvailable == "(No diff available)"
NoSummaryAvailable == "(No summary available)"
BranchLabel == "**Current branch:** " \o BT
CommitsLabel == "**Recent commits:**\n" \o Fence \o "\n"

\* the pieces appended to `context`, in order
DiffSection(staged, d) ==
    IF d.ret.ok THEN <<DiffHeading(staged), Str(d.ret.val), SectionEnd>>
    ELSE <<DiffHeading(staged), NoDiffAvailable, SectionEnd>>

\* variant: a failed summary leaves its section empty
SummarySection_NoPlaceholder(env) ==
    LET summary == SpawnGitWithArgs(env.summary) IN
    IF summary.ok THEN <<SummaryHeading, Str(summary.val), SectionEnd>>
    ELSE <<SummaryHeading, "", SectionEnd>>

SummarySection(env) ==
    LET summary == SpawnGitWithArgs(env.summary) IN
    IF summary.ok THEN <<SummaryHeading, Str(summary.val), SectionEnd>>
    ELSE <<SummaryHeading, NoSummaryAvailable, SectionEnd>>

BranchSection(env) ==
    LET currentBranch == SpawnGitWithArgs(env.branch) IN
    IF currentBranch.ok /\ currentBranch.val # <<>>
    THEN <<BranchLabel, Str(Trim(currentBranch.val)), BT \o "\n\n">>
    ELSE <<>>

CommitsSection(env) ==
    LET recentCommits == SpawnGitWithArgs(env.log) IN
    IF recentCommits.ok /\ recentCommits.val # <<>>
    THEN <<CommitsLabel, Str(recentCommits.val), "\n" \o Fence \o "\n">>
    ELSE <<>>

RECURSIVE Concat(_)
Concat(parts) == IF parts = <<>> THEN "" ELSE Head(parts) \o Concat(Tail(parts))

\* variant: a failure of the branch query ends the Repository Context
GetCommitContext_BranchEnds(staged, d, env) ==
    LET parts == <<"## Git Context for Commit Message Generation\n\n">>
                 \o DiffSection(staged, d)
                 \o SummarySection(env)
                 \o <<"### Repository Context\n\n">>
                 \o BranchSection(env)
                 \o (IF SpawnGitWithArgs(env.branch).ok
                     THEN CommitsSection(env) ELSE <<>>)
    IN  [ret |-> Ok(Concat(parts)), parts |-> parts, diff |-> d]

\* getCommitContext(changes, options) calls getDiffForChanges, which runs to
\* its end, and waits for the promise it returned (await, line 165); this is
\* getCommitContext from there on, d being what getDiffForChanges did and env
\* what the repository answers now.  ret is the completion (the document),
\* parts the pieces it was concatenated from, diff what getDiffForChanges did
GetCommitContext(staged, d, env) ==
    LET parts == <<"## Git Context for Commit Message Generation\n\n">>
                 \o DiffSection(staged, d)
                 \o SummarySection(env)
                 \o <<"### Repository Context\n\n">>
                 \o BranchSection(env)
                 \o CommitsSection(env)
    IN  [ret |-> Ok(Concat(parts)), parts |-> parts, diff |-> d]

\* ------------------------------------------------ CommitMessageProvider

LowerCase ==
    {"a", "b", "c", "d", "e", "f", "g", "h", "i", "j", "k", "l", "m",
     "n", "o", "p", "q", "r", "s", "t", "u", "v", "w", "x", "y", "z"}

RECURSIVE LeadingLowerCase(_)
\* how many characters [a-z]* takes at the start of s
LeadingLowerCase(s) ==
    IF s # <<>> /\ Head(s) \in LowerCase THEN 1 + LeadingLowerCase(Tail(s)) ELSE 0

RECURSIVE RemoveCodeBlockMarkers(_)
\* cleaned.replace(/```[a-z]*\n|```/g, "")
RemoveCodeBlockMarkers(s) ==
    IF s = <<>> THEN <<>>
    ELSE IF Len(s) >= 3 /\ s[1] = BT /\ s[2] = BT /\ s[3] = BT
    THEN LET rest == SubSeq(s, 4, Len(s))
             k == LeadingLowerCase(rest)
         IN  IF Len(rest) > k /\ rest[k + 1] = NL
             THEN RemoveCodeBlockMarkers(SubSeq(rest, k + 2, Len(rest)))
             ELSE RemoveCodeBlockMarkers(rest)
    ELSE <<Head(s)>> \o RemoveCodeBlockMarkers(Tail(s))

QuoteChars == {"\"", "'", BT}

\* withoutCodeBlocks.replace(/^["'`]|["'`]$/g, ""): the two matches do not
\* overlap, so a text of one quote character loses it once
RemoveWrappingQuotes(s) ==
    LET first == s # <<>> /\ Head(s) \in QuoteChars
        last == Len(s) >= 2 /\ Last(s) \in QuoteChars
    IN  SubSeq(s, IF first THEN 2 ELSE 1, IF last THEN Len(s) - 1 ELSE Len(s))

ExtractCommitMessage(response) ==
    Trim(RemoveWrappingQuotes(RemoveCodeBlockMarkers(Trim(response))))

\* variant: error.message whatever was thrown
ErrorMessage_AnyThrown(error) == error.message

\* error instanceof Error ? error.message : "Unknown error occurred"
ErrorMessage(error) ==
    IF error.isError THEN error.message ELSE "Unknown error occurred"

NoChangesError == "No changes found to generate commit message"

\* supportPrompt.get(customSupportPrompts, "COMMIT_MESSAGE")
BaseTemplate == "<COMMIT_MESSAGE template>"

DifferentMessagePrefix(previousMessage) ==
    <<"# CRITICAL INSTRUCTION: GENERATE A COMPLETELY DIFFERENT COMMIT MESSAGE\nThe user has requested a new commit message for the same changes.\nThe previous message was: \"",
      previousMessage,
      "\"\nYOU MUST create a message that is COMPLETELY DIFFERENT by:\n- Using entirely different wording and phrasing\n- Focusing on different aspects of the changes\n- Using a different structure or format if appropriate\n- Possibly using a different type or scope if justifiable\nThis is the MOST IMPORTANT requirement for this task.\n\n">>

FinalReminder(previousMessage) ==
    <<"\n\nFINAL REMINDER: Your message MUST be COMPLETELY DIFFERENT from the previous message: \"",
      previousMessage,
      "\". This is a critical requirement.">>

\* supportPrompt.create("COMMIT_MESSAGE", params, prompts): the template (its
\* pieces, in order) with the parameters it is filled with
SupportPromptCreate(template, gitContext, customInstructions) ==
    [template |-> template, gitContext |-> gitContext,
     customInstructions |-> customInstructions]

\* variant: the directive is added whenever a previous message exists
BuildCommitMessagePrompt_AnyContext(gitContextString, prevContext, prevMessage, customInstructions) ==
    IF prevMessage # Null
    THEN SupportPromptCreate(DifferentMessagePrefix(prevMessage)
                               \o <<BaseTemplate>>
                               \o FinalReminder(prevMessage),
                             gitContextString, customInstructions)
    ELSE SupportPromptCreate(<<BaseTemplate>>, gitContextString, customInstructions)

\* buildCommitMessagePrompt from where addCustomInstructions has answered,
\* given the session state it reads
BuildCommitMessagePrompt(gitContextString, prevContext, prevMessage, customInstructions) ==
    LET shouldGenerateDifferentMessage ==
            prevContext = gitContextString /\ prevMessage # Null
    IN  IF shouldGenerateDifferentMessage
        THEN SupportPromptCreate(DifferentMessagePrefix(prevMessage)
                                   \o <<BaseTemplate>>
                                   \o FinalReminder(prevMessage),
                                 gitContextString, customInstructions)
        ELSE SupportPromptCreate(<<BaseTemplate>>, gitContextString,
                                 customInstructions)

\* --------------------------------------------------------------- state

VARIABLES
    \* CommitMessageProvider
    gitService,             \* 0 (null) or the index in `services` of the held service
    previousGitContext,     \* Null or the document of the last successful run
    previousCommitMessage,  \* Null or the message of the last successful run
    targetRepository,       \* Null or the repository last resolved
    currentWorkspaceRoot,   \* Null or the root the held service was built for
    \* every GitExtensionService constructed so far: [workspaceRoot, disposed]
    services,
    \* the editor: the input box of each repository, the clipboard
    inputBox, clipboard,
    \* the generation runs in flight, and how many calls of the provider were
    \* made (runs started and direct calls of setCommitMessage)
    run, starts,
    \* a single call of one function of the source, and what it returned
    \* (<<>> before the call, <<result>> after it)
    call, ret

vars == <<gitService, previousGitContext, previousCommitMessage,
          targetRepository, currentWorkspaceRoot, services,
          inputBox, clipboard, run, starts, call, ret>>

providerVars == <<gitService, previousGitContext, previousCommitMessage,
                  targetRepository, currentWorkspaceRoot, services,
                  inputBox, clipboard, run, starts>>

\* workspace roots
RootA == <<"/", "w">>
RootB == <<"/", "v">>
Roots == {RootA, RootB}
\* a repository inside the repository at RootA (a submodule, a nested clone)
RootNested == RootA \o <<"/", "n">>
\* the roots the git extension can name
TargetRoots == Roots \cup {RootNested}

Runs == {"r1", "r2"}
Repos == {Str(r) : r \in Roots}

\* a run (one call of generateCommitMessageForExternal or
\* generateCommitMessageVsCode): where it waits (pc), its arguments and
\* locals, whether the git status query it waits for has failed (queryFailed),
\* what the completion capability answered (response), what was thrown inside
\* it (thrown), what it returned (result), the notifications it showed (shown)
\* and the calls it made on the Assembler and the completion capability (log);
\* while getCommitContext is pending, the service that executes it (service)
\* and what its getDiffForChanges did (diff); the message extractCommitMessage
\* returned (generatedMessage) and the runs that had their message and had
\* not stored it yet when the completion of this run settled (settledAfter)
NewRun(kind, workspacePath) ==
    [pc |-> "idle", kind |-> kind, workspacePath |-> workspacePath,
     changes |-> <<>>, staged |-> TRUE, queryFailed |-> FALSE,
     service |-> 0, diff |-> <<>>,
     gitContextString |-> "",
     prompt |-> <<>>, response |-> <<>>, generatedMessage |-> <<>>,
     settledAfter |-> {},
     thrown |-> <<>>,
     result |-> <<>>, outcome |-> "none",
     shown |-> <<>>, log |-> <<>>]

IdleRun == NewRun("none", <<>>)

\* the provider right after its constructor, no run started
ProviderInit ==
    /\ gitService = 0
    /\ previousGitContext = Null
    /\ previousCommitMessage = Null
    /\ targetRepository = Null
    /\ currentWorkspaceRoot = Null
    /\ services = <<>>
    /\ inputBox = [r \in Repos |-> ""]
    /\ clipboard = Null
    /\ run = [r \in Runs |-> IdleRun]
    /\ starts = 0

\* all texts over an alphabet up to a length
Texts(alphabet, n) == UNION {[1..k -> alphabet] : k \in 0..n}

\* ------------------------------------- specification: gatherChanges alone

MaxStatusLen == 5
StatusAlphabet == {"M", "?", "x", " ", NL, "/", "."}
StatusCodes == {"M", "A", "D", "R", "C", "U", "?", "X", "m", " "}

File1 == <<"f", "i", "l", "e", "1", ".", "t", "s">>
File2 == <<"f", "i", "l", "e", "2", ".", "t", "s">>
\* "M file1.ts\nA file2.ts\n"
ExampleStatus == <<"M", " ">> \o File1 \o <<NL, "A", " ">> \o File2 \o <<NL>>

\* the outputs of `git diff --name-status`: all short texts, and two-line
\* outputs with every status letter (git separates code and path by a tab)
StatusOutputs ==
    Texts(StatusAlphabet, MaxStatusLen)
    \cup {<<c1, "\t", "f", NL, c2, " ", "g", "\r", NL>> : c1, c2 \in StatusCodes}
    \cup {<<"M", w, "f", w, NL, w, NL>> : w \in WhiteSpace}
    \cup {ExampleStatus}

StatusResults ==
    {Exited(0, out) : out \in StatusOutputs}
    \cup {SpawnFailed, Exited(1, <<>>), Exited(128, <<"M", " ", "x", NL>>)}

InitParse ==
    /\ ProviderInit
    /\ call \in [fn : {"gatherChanges"}, root : {RootA}, staged : BOOLEAN,
                 result : StatusResults]
    /\ ret = <<>>

GatherChangesCall ==
    /\ call.fn = "gatherChanges"
    /\ ret = <<>>
    /\ ret' = <<GatherChanges(call.root, call.result)>>
    /\ UNCHANGED <<call, providerVars>>

NextParse == GatherChangesCall

SpecParse == InitParse /\ [][NextParse]_vars

\* ---- the status output read line by line, stated without split and filter

LineStarts(out) == {i \in 1..(Len(out) + 1) : i = 1 \/ out[i - 1] = NL}

LineFrom(out, i) ==
    LET end == CHOOSE j \in i..(Len(out) + 1) :
                   /\ (j = Len(out) + 1 \/ out[j] = NL)
                   /\ \A k \in i..(j - 1) : out[k] # NL
    IN  SubSeq(out, i, end - 1)

IsBlank(line) == \A k \in 1..Len(line) : line[k] \in WhiteSpace

\* where the lines that give a Change start
KeptStarts(out) ==
    {i \in LineStarts(out) : ~IsBlank(LineFrom(out, i)) /\ Len(LineFrom(out, i)) >= 2}

\* the n-th smallest element of a set of numbers
Nth(S, n) == CHOOSE x \in S : Cardinality({y \in S : y < x}) = n - 1

KeptLine(out, n) == LineFrom(out, Nth(KeptStarts(out), n))

StatusTable ==
    "M" :> "Modified" @@ "A" :> "Added" @@ "D" :> "Deleted" @@ "R" :> "Renamed"
    @@ "C" :> "Copied" @@ "U" :> "Updated" @@ "?" :> "Untracked"

StatusOf(c) == IF c \in DOMAIN StatusTable THEN StatusTable[c] ELSE "Unknown"

ParseDone == call.fn = "gatherChanges" /\ ret # <<>>
ParseOk == ParseDone /\ ~call.result.error /\ call.result.status = 0
ParseOut == call.result.stdout

\* C7: gatherChanges returns one Change per non-blank status line of length
\* >= 2, in the order of the output; its status is the mapping of the first
\* character and its filePath the root joined with the trimmed rest of the
\* line (for a plain name: root, "/", name).  "M file1.ts\nA file2.ts\n" gives
\* Modified <root>/file1.ts, Added <root>/file2.ts.
C7_ChangePerLine ==
    ParseOk =>
        /\ ret[1].ok
        /\ Len(ret[1].val) = Cardinality(KeptStarts(ParseOut))
        /\ \A n \in 1..Len(ret[1].val) :
              LET line == KeptLine(ParseOut, n)
                  rest == Trim(SubSeq(line, 2, Len(line)))
                  plain == rest # <<>> /\ \A k \in 1..Len(rest) : rest[k] \notin {"/", "."}
              IN  /\ ret[1].val[n].status = StatusOf(line[1])
                  /\ ret[1].val[n].filePath = Str(PathJoin(call.root, rest))
                  /\ plain => ret[1].val[n].filePath
                                = Str(call.root) \o "/" \o Str(rest)
        /\ ParseOut = ExampleStatus =>
              ret[1].val = <<[filePath |-> "/w/file1.ts", status |-> "Modified"],
                             [filePath |-> "/w/file2.ts", status |-> "Added"]>>

\* the example of the claim, and an output whose second line comes after a
\* blank line and a one-character line
C7_Witness ==
    /\ ParseOk
    /\ \/ ParseOut = ExampleStatus /\ Len(ret[1].val) = 2
       \/ ParseOut = <<"M", NL, NL, "?", "x">> /\ Len(ret[1].val) = 1

\* C8: the status of every Change is given by the fixed table M, A, D, R, C,
\* U, ? and is Unknown for every other first character, a leading blank
\* included.
C8_StatusTable ==
    ParseOk =>
        \A n \in 1..Len(ret[1].val) :
            LET c == KeptLine(ParseOut, n)[1] IN
            ret[1].val[n].status =
                CASE c = "M" -> "Modified" [] c = "A" -> "Added"
                  [] c = "D" -> "Deleted"  [] c = "R" -> "Renamed"
                  [] c = "C" -> "Copied"   [] c = "U" -> "Updated"
                  [] c = "?" -> "Untracked" [] OTHER -> "Unknown"

\* a recognised letter next to a line that starts with a blank
C8_Witness ==
    /\ ParseOk
    /\ ParseOut = <<"U", "\t", "f", NL, " ", " ", "g", "\r", NL>>
    /\ ret[1].val = <<[filePath |-> "/w/f", status |-> "Updated"],
                      [filePath |-> "/w/g", status |-> "Unknown"]>>

\* C9: a line shorter than two characters gives no Change and no exception:
\* the number of Changes is the number of non-blank lines of length >= 2.
C9_ShortLinesSkipped ==
    ParseOk =>
        /\ ret[1].ok
        /\ Len(ret[1].val)
             = Cardinality({i \in LineStarts(ParseOut) :
                              LET line == LineFrom(ParseOut, i) IN
                              Len(line) >= 2 /\ \E k \in 1..Len(line) :
                                                  line[k] \notin WhiteSpace})

\* a one-character line before a line that counts
C9_Witness ==
    /\ ParseOk
    /\ ParseOut = <<"?", NL, "M", " ", "x">>
    /\ Len(ret[1].val) = 1

\* ---------------------------- specification: the context assembler alone

MaxDiffFiles == 2
MaxContextFiles == 1

FileA == <<"a">>
FileLock ==
    <<"p", "a", "c", "k", "a", "g", "e", "-", "l", "o", "c", "k", ".",
      "j", "s", "o", "n">>
FileNestedLock == <<"d", "/">> \o FileLock
FileBak == <<"m", "y", "-">> \o FileLock \o <<".", "b", "a", "k">>
Files == {FileA, FileLock, FileNestedLock, FileBak}

\* what `git diff -- f` prints for f
DiffText(f) == <<" ", "+">> \o f \o <<NL>>
SummaryText == <<" ", "1", " ", "f", "i", "l", "e", NL>>
BranchText == <<"m", "a", "i", "n", NL>>
LogText == <<"c", "1", " ", "f", "i", "x", NL>>

Listings(n) == UNION {[1..k -> Files] : k \in 0..n}
Names(listing) == {Str(listing[i]) : i \in 1..Len(listing)}
NameOnlyText(listing) ==
    IF listing = <<>> THEN <<>> ELSE Join(listing, NL) \o <<NL>>
\* the same list with blanks around the names and an empty line
NameOnlySpaced(listing) ==
    IF listing = <<>> THEN <<NL>>
    ELSE <<" ">> \o Join(listing, NL) \o <<"\r", NL, NL>>

\* the environments of one call over the files of `listing`
Envs(listing, summaries, branches, logs) ==
    {[nameOnly |-> n, summary |-> s, branch |-> b, log |-> l,
      access |-> a,
      diff |-> [f \in Names(listing) |->
                  IF d[f] THEN Exited(0, DiffText(CHOOSE x \in Files : Str(x) = f))
                  ELSE Exited(1, <<>>)]] :
        n \in {Exited(0, NameOnlyText(listing)), Exited(0, NameOnlySpaced(listing)),
               SpawnFailed},
        s \in summaries, b \in branches, l \in logs,
        a \in [Names(listing) -> {"allow", "deny", "throw"}],
        d \in [Names(listing) -> BOOLEAN]}

InitContext ==
    /\ ProviderInit
    /\ ret = <<>>
    /\ \/ \E listing \in Listings(MaxDiffFiles) :
            \E env \in Envs(listing, {SpawnFailed}, {SpawnFailed}, {SpawnFailed}) :
              call \in [fn : {"getDiffForChanges"}, root : {RootA},
                        staged : BOOLEAN, onProgress : BOOLEAN, env : {env}]
       \/ \E listing \in Listings(MaxContextFiles) :
            \E env \in Envs(listing,
                            {SpawnFailed, Exited(0, SummaryText)},
                            {SpawnFailed, Exited(0, BranchText), Exited(0, <<>>)},
                            {Exited(128, <<>>), Exited(0, LogText)}) :
              call \in [fn : {"getCommitContext"}, root : {RootA},
                        staged : BOOLEAN, onProgress : BOOLEAN, env : {env},
                        pc : {"notCalled"}, diff : {<<>>}, disposed : {FALSE}]

GetDiffForChangesCall ==
    /\ call.fn = "getDiffForChanges"
    /\ ret = <<>>
    /\ ret' = <<GetDiffForChanges(call.root, TRUE, call.staged,
                                  call.onProgress, call.env)>>
    /\ UNCHANGED <<call, providerVars>>

\* service.getCommitContext(changes, options) up to its await: the file list
\* and the single-file diffs are asked for, the promise is pending
GetCommitContextCall ==
    /\ call.fn = "getCommitContext"
    /\ call.pc = "notCalled"
    /\ \E d \in {GetDiffForChanges(call.root, TRUE, call.staged,
                                    call.onProgress, call.env)} :
          call' = [call EXCEPT !.pc = "awaitDiff", !.diff = <<d>>]
    /\ UNCHANGED <<ret, providerVars>>

\* what the stat, branch and log queries answer after the repository has
\* changed while the promise is pending
LaterAnswers ==
    {[summary |-> SpawnFailed, branch |-> SpawnFailed, log |-> Exited(128, <<>>)],
     [summary |-> Exited(0, <<" ", "2", " ", "f", "i", "l", "e", "s", NL>>),
      branch |-> Exited(0, <<"o", "t", "h", "e", "r", NL>>),
      log |-> Exited(0, LogText)]}

\* the repository changes while the promise is pending
RepositoryChanges ==
    /\ call.fn = "getCommitContext"
    /\ call.pc = "awaitDiff"
    /\ \E later \in LaterAnswers :
          /\ call' = [call EXCEPT !.env.summary = later.summary,
                                  !.env.branch = later.branch,
                                  !.env.log = later.log]
          /\ call' # call
    /\ UNCHANGED <<ret, providerVars>>

\* service.dispose() while the promise is pending
DisposeServiceCall ==
    /\ call.fn = "getCommitContext"
    /\ call.pc = "awaitDiff"
    /\ ~call.disposed
    /\ call' = [call EXCEPT !.disposed = TRUE]
    /\ UNCHANGED <<ret, providerVars>>

\* getCommitContext resumes: the stat, branch and log queries are made and
\* the document is returned
GetCommitContextResumes ==
    /\ call.fn = "getCommitContext"
    /\ call.pc = "awaitDiff"
    /\ ret' = <<GetCommitContext(call.staged, call.diff[1], call.env)>>
    /\ call' = [call EXCEPT !.pc = "returned"]
    /\ UNCHANGED providerVars

NextContext ==
    \/ GetDiffForChangesCall
    \/ GetCommitContextCall
    \/ RepositoryChanges
    \/ DisposeServiceCall
    \/ GetCommitContextResumes

SpecContext == InitContext /\ [][NextContext]_vars

HasPart(parts, piece) == \E i \in 1..Len(parts) : parts[i] = piece

\* the piece that follows the heading of a section
SectionBody(parts, heading) ==
    parts[1 + CHOOSE i \in 1..Len(parts) : parts[i] = heading]

IsSubText(needle, hay) ==
    \E i \in 0..(Len(hay) - Len(needle)) :
        SubSeq(hay, i + 1, i + Len(needle)) = needle

Failed(result) == result.error \/ result.status # 0

ContextDone == call.fn = "getCommitContext" /\ ret # <<>>

\* every git call of the Assembler fails
EveryGitCallFails ==
    /\ Failed(call.env.nameOnly) /\ Failed(call.env.summary)
    /\ Failed(call.env.branch) /\ Failed(call.env.log)
    /\ \A f \in DOMAIN call.env.diff : Failed(call.env.diff[f])

\* C5 as claimed: getCommitContext never throws, and for an Assembler whose
\* every git call fails the document holds four placeholder sections (diff,
\* statistical summary, current branch, recent commits).
C5_FourPlaceholders ==
    ContextDone =>
        /\ ret[1].ret.ok
        /\ EveryGitCallFails =>
              /\ SectionBody(ret[1].parts, DiffHeading(call.staged)) = NoDiffAvailable
              /\ SectionBody(ret[1].parts, SummaryHeading) = NoSummaryAvailable
              /\ HasPart(ret[1].parts, BranchLabel)
              /\ HasPart(ret[1].parts, CommitsLabel)

\* C5 as amended: getCommitContext never throws; when every git call fails
\* the document is the title, the diff section with an empty body, the
\* summary section with its placeholder, and the Repository Context heading
\* with no branch line and no recent-commits block.
C5_NeverThrowsOnePlaceholder ==
    ContextDone =>
        /\ ret[1].ret.ok
        /\ EveryGitCallFails =>
              ret[1].parts =
                  <<"## Git Context for Commit Message Generation\n\n",
                    DiffHeading(call.staged), "", SectionEnd,
                    SummaryHeading, NoSummaryAvailable, SectionEnd,
                    "### Repository Context\n\n">>

C5_Witness ==
    /\ ContextDone
    /\ EveryGitCallFails
    /\ DOMAIN call.env.diff # {}
    /\ ret[1].ret.ok
    /\ Len(ret[1].parts) = 8

DiffDone == call.fn = "getDiffForChanges" /\ ret # <<>>

\* the filter of the claim: validateAccess returns true or throws, and the
\* file is no lockfile
FilterAllows(f) ==
    /\ call.env.access[Str(f)] \in {"allow", "throw"}
    /\ ~(Last(Split(f, "/")) \in LockFileNames)

DiffFetched(f) == \E i \in 1..Len(ret[1].fetched) : ret[1].fetched[i] = Str(f)
DiffIncluded(f) == IsSubText(Trim(DiffText(f)), ret[1].ret.val)

\* C10 as claimed: the single-file diff of a changed file (one whose own
\* diff query answers) is fetched and included if and only if the filter
\* allows the file; a rejected file is never given to the single-file diff
\* query and no diff content of it is in the document.
C10_FetchedAndIncludedIffAllowed ==
    DiffDone =>
        \A i \in 1..Len(ret[1].files) :
            LET f == ret[1].files[i] IN
            /\ ~Failed(call.env.diff[Str(f)]) =>
                  ((DiffFetched(f) /\ DiffIncluded(f)) <=> FilterAllows(f))
            /\ ~FilterAllows(f) => ~DiffFetched(f) /\ ~DiffIncluded(f)

\* ------------------------------------ specification: the provider's runs

MaxStarts == 2

\* what the status query, the context queries and the completion capability
\* may answer while a run is in flight
RunStatusResults ==
    {Exited(128, <<>>), Exited(0, <<>>), Exited(0, <<"M", " ", "a", NL>>)}

RunContextEnvs ==
    {[nameOnly |-> Exited(0, <<"a", NL>>), summary |-> Exited(0, SummaryText),
      branch |-> Exited(0, BranchText), log |-> Exited(0, LogText),
      access |-> [f \in {"a"} |-> "allow"],
      diff |-> [f \in {"a"} |-> Exited(0, DiffText(FileA))]]}

CompletionOutcomes ==
    {Ok(<<"f", "i", "x">>),
     Ok(<<"\"", "f", "e", "a", "t", "\"", NL>>),
     Throw(Error("AI API error")),
     Throw(NonError("rate limited"))}

\* the git extension as determineTargetRepository finds it: active or not,
\* its repositories (each named by its root) and the active resource, if any
RepositoryLists == {<<>>, <<RootA, RootB>>}
Resources == {<<>>, <<RootB \o <<"/", "x">>>>}

StartsWith(text, prefix) ==
    Len(text) >= Len(prefix) /\ SubSeq(text, 1, Len(prefix)) = prefix

\* variant: the search goes on to the last repository whose root matches
DetermineTargetRepository_LastMatch(active, repositories, resource) ==
    IF ~active THEN Null
    ELSE IF \E i \in 1..Len(repositories) :
                resource # <<>> /\ StartsWith(resource[1], repositories[i])
    THEN LET i == CHOOSE k \in 1..Len(repositories) :
                      /\ StartsWith(resource[1], repositories[k])
                      /\ \A j \in (k + 1)..Len(repositories) :
                            ~StartsWith(resource[1], repositories[j])
         IN  Str(repositories[i])
    ELSE IF repositories = <<>> THEN Null
    ELSE Str(repositories[1])

\* determineTargetRepository(resourceUri): the name of the repository, or Null
DetermineTargetRepository(active, repositories, resource) ==
    IF ~active THEN Null
    ELSE IF \E i \in 1..Len(repositories) :
                resource # <<>> /\ StartsWith(resource[1], repositories[i])
    THEN LET i == CHOOSE k \in 1..Len(repositories) :
                      /\ StartsWith(resource[1], repositories[k])
                      /\ \A j \in 1..(k - 1) :
                            ~StartsWith(resource[1], repositories[j])
         IN  Str(repositories[i])
    ELSE IF repositories = <<>> THEN Null
    ELSE Str(repositories[1])

RootOf(repository) == CHOOSE root \in TargetRoots : Str(root) = repository

\* the catch clause of generateCommitMessageForExternal (the result) and of
\* generateCommitMessageVsCode (the error notification)
RunFails(rr, error) ==
    [rr EXCEPT
        !.pc = "done",
        !.outcome = "failed",
        !.thrown = <<error>>,
        !.result = IF rr.kind = "external"
                   THEN <<[message |-> "", error |-> ErrorMessage(error)]>>
                   ELSE <<>>,
        !.shown = IF rr.kind = "vscode"
                  THEN Append(@, [kind |-> "error", text |-> ErrorMessage(error)])
                  ELSE @]

\* a value is thrown inside an async function the run awaits (gatherGitChanges,
\* getCommitContext, callAIForCommitMessage): the promise rejects and the
\* catch clause of the run is reached when the run resumes
RunRejects(rr, error) ==
    [rr EXCEPT !.pc = "awaitCatch", !.thrown = <<error>>]

\* variant: no changes handled as a thrown error
RunNoChanges_Thrown(rr) == RunFails(rr, Error("No changes found"))

\* changes.length === 0 after gatherGitChanges
RunNoChanges(rr) ==
    [rr EXCEPT
        !.pc = "done",
        !.outcome = "noChanges",
        !.result = IF rr.kind = "external"
                   THEN <<[message |-> "", error |-> NoChangesError]>>
                   ELSE <<>>,
        !.shown = IF rr.kind = "vscode"
                  THEN Append(@, [kind |-> "info", text |-> "noChanges"])
                  ELSE @]

\* a step of run r leaves it as rr: a run that has ended hands its record to
\* its caller (ret) and frees its slot, any other run waits at its next await
Settle(r, rr) ==
    \E now \in {rr} :
        /\ run' = [run EXCEPT ![r] = IF now.pc = "done" THEN IdleRun ELSE now]
        /\ ret' = IF now.pc = "done" THEN <<now>> ELSE <<>>

TypeErrorNull(method) ==
    Error("Cannot read properties of null (reading '" \o method \o "')")

\* a call of the Assembler as a run's log keeps it: the root of the service
\* that was called, whether it was disposed and how many changes were returned
GatherEntry(staged, service, result, returned) ==
    [op |-> "gatherChanges", staged |-> staged,
     root |-> Str(services'[service].workspaceRoot),
     disposed |-> services'[service].disposed,
     count |-> IF returned.ok THEN Len(returned.val) ELSE -1]

\* this.gitService.gatherChanges({staged}) of gatherGitChanges, on the service
\* held when the call is made; the run then waits for the returned promise
CallGatherChanges(r, rr, staged, waitAt) ==
    IF gitService' = 0
    THEN Settle(r, RunRejects(rr, TypeErrorNull("gatherChanges")))
    ELSE \E result \in RunStatusResults :
         \E c \in {GatherChanges(services'[gitService'].workspaceRoot, result)} :
           LET logged == [rr EXCEPT
                             !.log = Append(@, GatherEntry(staged, gitService', result, c)),
                             !.queryFailed = Failed(result)]
           IN  Settle(r, IF c.ok
                          THEN [logged EXCEPT !.pc = waitAt, !.staged = staged,
                                              !.changes = c.val]
                          ELSE RunRejects(logged, c.err))

\* variant: the service of the former root is not disposed
BeginGatherGitChanges_OldKept(r, rr, workspacePath) ==
    LET switch == currentWorkspaceRoot # Str(workspacePath)
    IN  /\ services' = IF switch
                       THEN Append(services, [workspaceRoot |-> workspacePath,
                                              disposed |-> FALSE])
                       ELSE services
        /\ gitService' = IF switch THEN Len(services') ELSE gitService
        /\ currentWorkspaceRoot' = Str(workspacePath)
        /\ IF gitService' = 0
           THEN Settle(r, RunRejects(rr, Error("Failed to initialize Git service")))
           ELSE CallGatherChanges(r, rr, TRUE, "awaitStaged")

\* variant: a service is constructed whenever none is held
BeginGatherGitChanges_WhenNoneHeld(r, rr, workspacePath) ==
    LET switch == currentWorkspaceRoot # Str(workspacePath) \/ gitService = 0
        released == IF gitService # 0
                    THEN [services EXCEPT ![gitService].disposed = TRUE]
                    ELSE services
    IN  /\ services' = IF switch
                       THEN Append(released, [workspaceRoot |-> workspacePath,
                                              disposed |-> FALSE])
                       ELSE services
        /\ gitService' = IF switch THEN Len(services') ELSE gitService
        /\ currentWorkspaceRoot' = Str(workspacePath)
        /\ IF gitService' = 0
           THEN Settle(r, RunRejects(rr, Error("Failed to initialize Git service")))
           ELSE CallGatherChanges(r, rr, TRUE, "awaitStaged")

\* gatherGitChanges(workspacePath) up to its first await: the service is
\* replaced when the root changes, then the staged changes are asked for
BeginGatherGitChanges(r, rr, workspacePath) ==
    LET switch == currentWorkspaceRoot # Str(workspacePath)
        released == IF gitService # 0
                    THEN [services EXCEPT ![gitService].disposed = TRUE]
                    ELSE services
    IN  /\ services' = IF switch
                       THEN Append(released, [workspaceRoot |-> workspacePath,
                                              disposed |-> FALSE])
                       ELSE services
        /\ gitService' = IF switch THEN Len(services') ELSE gitService
        /\ currentWorkspaceRoot' = Str(workspacePath)
        /\ IF gitService' = 0
           THEN Settle(r, RunRejects(rr, Error("Failed to initialize Git service")))
           ELSE CallGatherChanges(r, rr, TRUE, "awaitStaged")

\* the runs are interchangeable: a new run takes the first free slot
FreeSlot(r) ==
    /\ run[r].pc = "idle"
    /\ r = "r2" => run["r1"].pc # "idle"

StartExternal(r, workspacePath) ==
    /\ FreeSlot(r)
    /\ starts < MaxStarts
    /\ starts' = starts + 1
    /\ BeginGatherGitChanges(r, NewRun("external", workspacePath), workspacePath)
    /\ UNCHANGED <<previousGitContext, previousCommitMessage, targetRepository,
                   inputBox, clipboard, call>>

\* variant: the resolved repository is not stored in the provider
StartVsCode_TargetNotStored(r, active, repositories, resource) ==
    LET repository == DetermineTargetRepository(active, repositories, resource) IN
    /\ FreeSlot(r)
    /\ starts < MaxStarts
    /\ starts' = starts + 1
    /\ IF repository = Null
       THEN /\ Settle(r, [NewRun("vscode", <<>>) EXCEPT
                              !.pc = "done", !.outcome = "rejected",
                              !.thrown = <<Error("Could not determine Git repository")>>,
                              !.result = <<Throw(Error("Could not determine Git repository"))>>])
            /\ UNCHANGED <<targetRepository, services, gitService,
                           currentWorkspaceRoot>>
       ELSE /\ targetRepository' = targetRepository
            /\ BeginGatherGitChanges(r, NewRun("vscode", RootOf(repository)),
                                     RootOf(repository))
    /\ UNCHANGED <<previousGitContext, previousCommitMessage,
                   inputBox, clipboard, call>>

StartVsCode(r, active, repositories, resource) ==
    LET repository == DetermineTargetRepository(active, repositories, resource) IN
    /\ FreeSlot(r)
    /\ starts < MaxStarts
    /\ starts' = starts + 1
    /\ IF repository = Null
       THEN \* thrown before withProgress: the returned promise rejects
            /\ Settle(r, [NewRun("vscode", <<>>) EXCEPT
                              !.pc = "done", !.outcome = "rejected",
                              !.thrown = <<Error("Could not determine Git repository")>>,
                              !.result = <<Throw(Error("Could not determine Git repository"))>>])
            /\ UNCHANGED <<targetRepository, services, gitService,
                           currentWorkspaceRoot>>
       ELSE /\ targetRepository' = repository
            /\ BeginGatherGitChanges(r, NewRun("vscode", RootOf(repository)),
                                     RootOf(repository))
    /\ UNCHANGED <<previousGitContext, previousCommitMessage,
                   inputBox, clipboard, call>>

\* the caller of gatherGitChanges resumes with {changes, staged}: no changes
\* ends the run, else this.gitService!.getCommitContext is called on the
\* service held now; getCommitContext runs getDiffForChanges to its end and
\* waits for its promise (part_000 line 165)
Gathered(r, rr) ==
    IF rr.changes = <<>> THEN Settle(r, RunNoChanges(rr))
    ELSE LET told == IF rr.kind = "vscode" /\ ~rr.staged
                     THEN [rr EXCEPT !.shown =
                              Append(@, [kind |-> "info", text |-> "generatingFromUnstaged"])]
                     ELSE rr
         IN
         IF gitService = 0
         THEN Settle(r, RunFails(told, TypeErrorNull("getCommitContext")))
         ELSE \E env \in RunContextEnvs :
              \E d \in {GetDiffForChanges(services[gitService].workspaceRoot, TRUE,
                                          told.staged, told.kind = "vscode", env)} :
                Settle(r, [told EXCEPT
                              !.pc = "awaitDiff",
                              !.service = gitService,
                              !.diff = <<d>>,
                              !.log = Append(@, [op |-> "getCommitContext",
                                                 staged |-> told.staged,
                                                 root |-> Str(services[gitService].workspaceRoot),
                                                 disposed |-> services[gitService].disposed])])

\* the promise of gatherChanges has settled and the run goes on
Resumed(rr) == [rr EXCEPT !.queryFailed = FALSE]

\* variant: the unstaged changes are asked for whatever the staged ones are
AfterStaged_AlwaysUnstaged(r) ==
    /\ run[r].pc = "awaitStaged"
    /\ UNCHANGED <<services, gitService>>
    /\ CallGatherChanges(r, Resumed(run[r]), FALSE, "awaitUnstaged")
    /\ UNCHANGED <<previousGitContext, previousCommitMessage, targetRepository,
                   currentWorkspaceRoot, inputBox, clipboard, starts, call>>

\* gatherGitChanges resumes with the staged changes: without any it asks for
\* the unstaged ones, else it returns {changes, staged} to its caller
AfterStaged(r) ==
    /\ run[r].pc = "awaitStaged"
    /\ UNCHANGED <<services, gitService>>
    /\ IF run[r].changes = <<>>
       THEN CallGatherChanges(r, Resumed(run[r]), FALSE, "awaitUnstaged")
       ELSE Settle(r, [Resumed(run[r]) EXCEPT !.pc = "awaitGathered"])
    /\ UNCHANGED <<previousGitContext, previousCommitMessage, targetRepository,
                   currentWorkspaceRoot, inputBox, clipboard, starts, call>>

\* gatherGitChanges resumes with the unstaged changes and returns
AfterUnstaged(r) ==
    /\ run[r].pc = "awaitUnstaged"
    /\ Settle(r, [Resumed(run[r]) EXCEPT !.pc = "awaitGathered"])
    /\ UNCHANGED <<gitService, previousGitContext, previousCommitMessage,
                   targetRepository, currentWorkspaceRoot, services,
                   inputBox, clipboard, starts, call>>

\* `await this.gatherGitChanges(workspacePath)` resumes
AfterGathered(r) ==
    /\ run[r].pc = "awaitGathered"
    /\ Gathered(r, run[r])
    /\ UNCHANGED <<gitService, previousGitContext, previousCommitMessage,
                   targetRepository, currentWorkspaceRoot, services,
                   inputBox, clipboard, starts, call>>

\* getCommitContext resumes in the service that was called, disposed or not:
\* the stat, branch and log queries are made and the document is returned
AfterDiff(r) ==
    /\ run[r].pc = "awaitDiff"
    /\ \E env \in RunContextEnvs :
       \E g \in {GetCommitContext(run[r].staged, run[r].diff[1], env)} :
          Settle(r, IF g.ret.ok
                    THEN [run[r] EXCEPT !.pc = "awaitContext", !.diff = <<>>,
                                        !.gitContextString = g.ret.val]
                    ELSE RunRejects([run[r] EXCEPT !.diff = <<>>], g.ret.err))
    /\ UNCHANGED <<gitService, previousGitContext, previousCommitMessage,
                   targetRepository, currentWorkspaceRoot, services,
                   inputBox, clipboard, starts, call>>

\* `await this.gitService!.getCommitContext(...)` resumes: the run enters
\* callAIForCommitMessage (in the interactive path through
\* callAIForCommitMessageWithProgress, which starts the progress timer) and
\* buildCommitMessagePrompt waits for addCustomInstructions.  Without a
\* workspace path buildCommitMessagePrompt does not wait: that is this step
\* with BuildPrompt next to it.
AfterContext(r) ==
    /\ run[r].pc = "awaitContext"
    /\ Settle(r, [run[r] EXCEPT !.pc = "awaitPrompt"])
    /\ UNCHANGED <<gitService, previousGitContext, previousCommitMessage,
                   targetRepository, currentWorkspaceRoot, services,
                   inputBox, clipboard, starts, call>>

\* what addCustomInstructions settles with: the instructions (none, some) or
\* a rejection
InstructionOutcomes == {Ok(""), Ok("rules"), Throw(Error("EACCES: rules"))}

\* variant: singleCompletionHandler is called, and called again
CallCompletion_CalledAgain(r) ==
    /\ run[r].pc = "awaitBuilt"
    /\ Settle(r, [run[r] EXCEPT !.pc = "awaitCompletion",
                                !.log = @ \o <<[op |-> "complete"], [op |-> "complete"]>>])
    /\ UNCHANGED <<gitService, previousGitContext, previousCommitMessage,
                   targetRepository, currentWorkspaceRoot, services,
                   inputBox, clipboard, starts, call>>

\* buildCommitMessagePrompt resumes with the custom instructions: the prompt
\* is built from the session state as it is now and returned; a rejection of
\* addCustomInstructions rejects the promise the run awaits
BuildPrompt(r) ==
    /\ run[r].pc = "awaitPrompt"
    /\ \E instructions \in InstructionOutcomes :
         IF instructions.ok
         THEN LET prompt == BuildCommitMessagePrompt(run[r].gitContextString,
                                                     previousGitContext,
                                                     previousCommitMessage,
                                                     instructions.val)
              IN  Settle(r, [run[r] EXCEPT !.pc = "awaitBuilt",
                                           !.prompt = <<prompt>>])
         ELSE Settle(r, RunRejects(run[r], instructions.err))
    /\ UNCHANGED <<gitService, previousGitContext, previousCommitMessage,
                   targetRepository, currentWorkspaceRoot, services,
                   inputBox, clipboard, starts, call>>

\* `await this.buildCommitMessagePrompt(...)` resumes: the prompt is given to
\* singleCompletionHandler
CallCompletion(r) ==
    /\ run[r].pc = "awaitBuilt"
    /\ Settle(r, [run[r] EXCEPT !.pc = "awaitCompletion",
                                !.log = Append(@, [op |-> "complete"])])
    /\ UNCHANGED <<gitService, previousGitContext, previousCommitMessage,
                   targetRepository, currentWorkspaceRoot, services,
                   inputBox, clipboard, starts, call>>

ClipboardNotice ==
    "Commit message copied to clipboard. Paste it into the commit message field."

\* what clipboard.writeText does: the text is written, the call throws, or
\* the promise it returns (which is not awaited) rejects
ClipboardWrites == {"written", "thrown", "rejected"}

\* the outcome of copyToClipboardFallback(message)
CopyToClipboardFallback(message, boxes, clip, write) ==
    IF write = "thrown"
    THEN [inputBox |-> boxes, clipboard |-> clip, shown |-> <<>>,
          completion |-> Throw(Error("Failed to set commit message"))]
    ELSE [inputBox |-> boxes,
          clipboard |-> IF write = "written" THEN message ELSE clip,
          shown |-> <<[kind |-> "info", text |-> ClipboardNotice]>>,
          completion |-> Ok(Null)]

\* variant: the message is added to what the input box holds
SetCommitMessage_Appended(message, target, boxes, clip, write) ==
    IF target # Null
    THEN [inputBox |-> [boxes EXCEPT ![target] = @ \o message], clipboard |-> clip,
          shown |-> <<>>, completion |-> Ok(Null)]
    ELSE CopyToClipboardFallback(message, boxes, clip, write)

\* setCommitMessage(message): the values of the input boxes and the clipboard
\* after it, the notification it shows and its completion
SetCommitMessage(message, target, boxes, clip, write) ==
    IF target # Null
    THEN [inputBox |-> [boxes EXCEPT ![target] = message], clipboard |-> clip,
          shown |-> <<>>, completion |-> Ok(Null)]
    ELSE CopyToClipboardFallback(message, boxes, clip, write)

\* variant: a failed completion empties the session state
CompletionSettles_FailureClears(r) ==
    /\ run[r].pc = "awaitCompletion"
    /\ \E completion \in CompletionOutcomes :
         IF completion.ok
         THEN /\ Settle(r, [run[r] EXCEPT
                               !.pc = "awaitMessage",
                               !.response = <<completion.val>>,
                               !.generatedMessage =
                                   <<Str(ExtractCommitMessage(completion.val))>>,
                               !.settledAfter =
                                   {q \in Runs : run[q].pc = "awaitMessage"}])
              /\ UNCHANGED <<previousGitContext, previousCommitMessage>>
         ELSE /\ Settle(r, RunRejects(run[r], completion.err))
              /\ previousGitContext' = Null
              /\ previousCommitMessage' = Null
    /\ UNCHANGED <<gitService, targetRepository, currentWorkspaceRoot, services,
                   inputBox, clipboard, starts, call>>

\* singleCompletionHandler settles: callAIForCommitMessage returns the
\* extracted message, or its promise rejects with the rejection.  In the interactive path
\* the message then waits for the delays of the progress ramp.
CompletionSettles(r) ==
    /\ run[r].pc = "awaitCompletion"
    /\ \E completion \in CompletionOutcomes :
         IF completion.ok
         THEN Settle(r, [run[r] EXCEPT
                            !.pc = "awaitMessage",
                            !.response = <<completion.val>>,
                            !.generatedMessage =
                                <<Str(ExtractCommitMessage(completion.val))>>,
                            !.settledAfter =
                                {q \in Runs : run[q].pc = "awaitMessage"}])
         ELSE Settle(r, RunRejects(run[r], completion.err))
    /\ UNCHANGED <<gitService, previousGitContext, previousCommitMessage,
                   targetRepository, currentWorkspaceRoot, services,
                   inputBox, clipboard, starts, call>>

\* the run has its message: what it stores, writes and returns.  session is
\* the pair <<previousGitContext, previousCommitMessage>> it leaves
Delivery(r, session) ==
    LET generatedMessage == run[r].generatedMessage[1] IN
    /\ previousGitContext' = session[1]
    /\ previousCommitMessage' = session[2]
    /\ IF run[r].kind = "vscode"
       THEN \E write \in ClipboardWrites :
            \E sink \in {SetCommitMessage(generatedMessage, targetRepository,
                                          inputBox, clipboard, write)} :
              /\ inputBox' = sink.inputBox
              /\ clipboard' = sink.clipboard
              /\ Settle(r, IF sink.completion.ok
                           THEN [run[r] EXCEPT !.pc = "done", !.outcome = "success",
                                               !.shown = @ \o sink.shown]
                           ELSE RunFails(run[r], sink.completion.err))
       ELSE /\ UNCHANGED <<inputBox, clipboard>>
            /\ Settle(r, [run[r] EXCEPT !.pc = "done", !.outcome = "success",
                                        !.result = <<[message |-> generatedMessage]>>])
    /\ UNCHANGED <<gitService, targetRepository, currentWorkspaceRoot, services,
                   starts, call>>

\* variant: the session state is written only while it is empty
Deliver_FirstKept(r) ==
    /\ run[r].pc = "awaitMessage"
    /\ Delivery(r, IF previousCommitMessage = Null
                   THEN <<run[r].gitContextString, run[r].generatedMessage[1]>>
                   ELSE <<previousGitContext, previousCommitMessage>>)

\* variant: of the session state only the message is written
Deliver_MessageOnly(r) ==
    /\ run[r].pc = "awaitMessage"
    /\ Delivery(r, <<previousGitContext, run[r].generatedMessage[1]>>)

\* the caller of callAIForCommitMessage (after the ramp, in the interactive
\* path) resumes with the message: the session state is written, then the
\* message is delivered by setCommitMessage or returned
Deliver(r) ==
    /\ run[r].pc = "awaitMessage"
    /\ Delivery(r, <<run[r].gitContextString, run[r].generatedMessage[1]>>)

\* the run resumes in its catch clause with the value its awaited promise
\* rejected with: the interactive run shows the error, the programmatic run
\* returns it
Catch(r) ==
    /\ run[r].pc = "awaitCatch"
    /\ Settle(r, RunFails(run[r], run[r].thrown[1]))
    /\ UNCHANGED <<gitService, previousGitContext, previousCommitMessage,
                   targetRepository, currentWorkspaceRoot, services,
                   inputBox, clipboard, starts, call>>

\* variant: this.gitService.dispose() without the test for null
DisposeProvider_NoNullTest(held, all) ==
    IF held = 0
    THEN [gitService |-> held, services |-> all,
          completion |-> Throw(TypeErrorNull("dispose"))]
    ELSE [gitService |-> 0, services |-> [all EXCEPT ![held].disposed = TRUE],
          completion |-> Ok(Null)]

\* the body of CommitMessageProvider.dispose(): this.gitService?.dispose(),
\* which disposes the ignore controller of the service (the flag disposed of
\* a service), then this.gitService = null
DisposeProvider(held, all) ==
    [gitService |-> 0,
     services |-> IF held # 0 THEN [all EXCEPT ![held].disposed = TRUE] ELSE all,
     completion |-> Ok(Null)]

\* CommitMessageProvider.dispose()
Dispose ==
    /\ services' = DisposeProvider(gitService, services).services
    /\ gitService' = DisposeProvider(gitService, services).gitService
    /\ ret' = <<>>
    /\ UNCHANGED <<previousGitContext, previousCommitMessage, targetRepository,
                   currentWorkspaceRoot, inputBox, clipboard, run, starts,
                   call>>

\* the messages of the direct calls of setCommitMessage
DirectMessages == {"ab"}

\* provider.setCommitMessage(message), called from outside a run; the caller
\* gets what was shown and what was thrown (the calls count as starts)
SetCommitMessageDirect(message, write) ==
    /\ starts < MaxStarts
    /\ starts' = starts + 1
    /\ \E sink \in {SetCommitMessage(message, targetRepository, inputBox,
                                     clipboard, write)} :
          /\ inputBox' = sink.inputBox
          /\ clipboard' = sink.clipboard
          /\ ret' = <<[NewRun("direct", <<>>) EXCEPT
                          !.pc = "done", !.outcome = "direct",
                          !.shown = sink.shown,
                          !.generatedMessage = <<message>>,
                          !.thrown = IF sink.completion.ok THEN <<>>
                                     ELSE <<sink.completion.err>>]>>
    /\ UNCHANGED <<gitService, previousGitContext, previousCommitMessage,
                   targetRepository, currentWorkspaceRoot, services, run,
                   call>>

Init ==
    /\ ProviderInit
    /\ call = [fn |-> "none"]
    /\ ret = <<>>

Next ==
    \/ \E r \in Runs, workspacePath \in Roots : StartExternal(r, workspacePath)
    \/ \E r \in Runs, active \in BOOLEAN, repositories \in RepositoryLists,
          resource \in Resources : StartVsCode(r, active, repositories, resource)
    \/ \E r \in Runs : AfterStaged(r)
    \/ \E r \in Runs : AfterUnstaged(r)
    \/ \E r \in Runs : AfterGathered(r)
    \/ \E r \in Runs : AfterDiff(r)
    \/ \E r \in Runs : AfterContext(r)
    \/ \E r \in Runs : BuildPrompt(r)
    \/ \E r \in Runs : CallCompletion(r)
    \/ \E r \in Runs : CompletionSettles(r)
    \/ \E r \in Runs : Deliver(r)
    \/ \E r \in Runs : Catch(r)
    \/ \E message \in DirectMessages, write \in ClipboardWrites :
          SetCommitMessageDirect(message, write)
    \/ Dispose

Spec == Init /\ [][Next]_vars

\* ------------------------------------------------ claims about the runs

\* the runs in flight and the run that has just ended
RunRecords ==
    {run[r] : r \in {q \in Runs : run[q].pc # "idle"}}
        \cup (IF call.fn = "none" /\ ret # <<>> THEN {ret[1]} ELSE {})

EndedRuns == IF call.fn = "none" /\ ret # <<>> THEN {ret[1]} ELSE {}

GatherCalls(rr) == SelectSeq(rr.log, LAMBDA e : e.op = "gatherChanges")

Invoked(rr, op) == \E i \in 1..Len(rr.log) : rr.log[i].op = op

\* C1 as claimed: in every run the first gatherChanges call is the staged one,
\* there are at most two calls, the unstaged call is made if and only if the
\* staged call returned an empty list, and a run whose two calls both returned
\* an empty list ends with the 'no changes' outcome with nothing thrown.
C1_StagedFirstFallbackIffEmpty ==
    \A rr \in RunRecords :
        LET g == GatherCalls(rr) IN
        /\ Len(g) <= 2
        /\ Len(g) >= 1 => g[1].staged
        /\ Len(g) = 2 => ~g[2].staged /\ g[1].count = 0
        /\ (Len(g) >= 1 /\ g[1].count = 0 /\ rr.pc # "awaitStaged") => Len(g) = 2
        /\ (Len(g) = 2 /\ g[2].count = 0
                /\ rr.pc \notin {"awaitUnstaged", "awaitGathered"})
               => rr.outcome = "noChanges" /\ rr.thrown = <<>>

\* C2: a run of generateCommitMessageForExternal whose staged and unstaged
\* change lists are both empty returns exactly {message: "", error: "No
\* changes found to generate commit message"}, and neither getCommitContext
\* nor the completion capability is invoked in that run.
C2_ExternalNoChanges ==
    \A rr \in EndedRuns :
        LET g == GatherCalls(rr) IN
        (rr.kind = "external" /\ Len(g) = 2 /\ g[1].count = 0 /\ g[2].count = 0)
            => /\ rr.result = <<[message |-> "",
                                 error |-> "No changes found to generate commit message"]>>
               /\ ~Invoked(rr, "getCommitContext")
               /\ ~Invoked(rr, "complete")

C2_Witness ==
    \E rr \in EndedRuns :
        /\ rr.kind = "external"
        /\ Len(GatherCalls(rr)) = 2
        /\ GatherCalls(rr)[1].count = 0 /\ GatherCalls(rr)[2].count = 0
        /\ rr.result = <<[message |-> "",
                          error |-> "No changes found to generate commit message"]>>

\* the shape of what generateCommitMessageForExternal resolves to
ExternalResolved(rr) ==
    /\ rr.outcome # "rejected"
    /\ Len(rr.result) = 1
    /\ rr.outcome = "success" =>
          rr.result[1] = [message |-> Str(ExtractCommitMessage(rr.response[1]))]
    /\ "error" \in DOMAIN rr.result[1] <=> rr.outcome # "success"

\* C3 as claimed: generateCommitMessageForExternal never rejects; whatever is
\* thrown inside it yields {message: "", error: <the message of the thrown
\* value>}; a success yields {message} with no error field; the error field is
\* present exactly when the run produced no message.
C3_ErrorIsTheExceptionsMessage ==
    \A rr \in EndedRuns :
        rr.kind = "external" =>
            /\ ExternalResolved(rr)
            /\ rr.thrown # <<>> =>
                  rr.result[1] = [message |-> "", error |-> rr.thrown[1].message]

\* C3, amended: as claimed, except that the error field is the message of the
\* thrown value only when that value is an Error instance; for any other
\* thrown value it is the fixed text "Unknown error occurred".
C3_ErrorIsMessageOrUnknown ==
    \A rr \in EndedRuns :
        rr.kind = "external" =>
            /\ ExternalResolved(rr)
            /\ rr.thrown # <<>> =>
                  rr.result[1] =
                      [message |-> "",
                       error |-> IF rr.thrown[1].isError
                                 THEN rr.thrown[1].message
                                 ELSE "Unknown error occurred"]

\* an external run ended by a thrown value that is not an Error
C3_Witness ==
    \E rr \in EndedRuns :
        /\ rr.kind = "external"
        /\ rr.thrown # <<>> /\ ~rr.thrown[1].isError
        /\ rr.result = <<[message |-> "", error |-> "Unknown error occurred"]>>

\* the prompt carries the 'completely different' directive naming message
HasDirective(prompt, message) ==
    /\ Len(prompt.template) = 7
    /\ prompt.template[1] = DifferentMessagePrefix(message)[1]
    /\ prompt.template[2] = message
    /\ prompt.template[4] = BaseTemplate
    /\ prompt.template[6] = message

\* C4: differ-on-repeat.  The session state always is the document and the
\* message of the latest successful run; a run that builds its prompt while
\* its document equals the stored document and a message is stored builds a
\* prompt whose directive holds that message literally; in every other case
\* (first run, different document) the prompt is built from the unmodified
\* template.
C4_Step ==
    /\ \A r \in Runs :
          (run[r].pc = "awaitPrompt" /\ run'[r].pc = "awaitBuilt") =>
              IF previousGitContext = run[r].gitContextString
                     /\ previousCommitMessage # Null
              THEN HasDirective(run'[r].prompt[1], previousCommitMessage)
              ELSE run'[r].prompt[1].template = <<BaseTemplate>>
    /\ IF ret' # <<>> /\ ret'[1].outcome = "success"
       THEN /\ previousGitContext' = ret'[1].gitContextString
            /\ previousCommitMessage' = Str(ExtractCommitMessage(ret'[1].response[1]))
       ELSE UNCHANGED <<previousGitContext, previousCommitMessage>>

C4_DifferOnRepeat == [][C4_Step]_vars

\* a second run on the document of a first, successful run: its prompt names
\* the message of the first
C4_Witness ==
    \E r \in Runs :
        /\ run[r].pc = "awaitBuilt"
        /\ previousCommitMessage = "fix"
        /\ previousGitContext = run[r].gitContextString
        /\ HasDirective(run[r].prompt[1], "fix")

\* C6 as claimed: a status query that fails makes gatherChanges return an
\* empty list, and the run that resumes from a failed staged query makes the
\* unstaged fallback call.
C6_Step ==
    \A r \in Runs :
        (run[r].pc = "awaitStaged" /\ run[r].queryFailed) =>
            /\ run[r].changes = <<>>
            /\ run'[r] # run[r] =>
                  /\ run'[r].pc = "awaitUnstaged"
                  /\ Len(GatherCalls(run'[r])) = 2
                  /\ ~GatherCalls(run'[r])[2].staged

C6_FailedStagedQueryFallsBack == [][C6_Step]_vars

\* ------------------------------- specification: extractCommitMessage alone

MaxResponseLen == 5
ResponseAlphabet == {BT, "\"", "a", " ", NL}

\* "Revert "fix"" in quotes, and a fenced answer that mentions a fence
QuotedRevert ==
    <<"\"", "R", "e", "v", "e", "r", "t", " ", "\"", "f", "i", "x", "\"", "\"">>
FencedAboutFence ==
    <<BT, BT, BT, NL, "f", "i", "x", " ", BT, BT, BT, " ", "x", NL, BT, BT, BT>>

Responses ==
    Texts(ResponseAlphabet, MaxResponseLen) \cup {QuotedRevert, FencedAboutFence}
        \cup {<<w, "\"", "a", "\"", w>> : w \in WhiteSpace}

InitExtract ==
    /\ ProviderInit
    /\ call \in [fn : {"extractCommitMessage"}, response : Responses]
    /\ ret = <<>>

\* this.extractCommitMessage(response)
ExtractCall ==
    /\ call.fn = "extractCommitMessage"
    /\ ret = <<>>
    /\ ret' = <<ExtractCommitMessage(call.response)>>
    /\ UNCHANGED <<call, providerVars>>

\* this.extractCommitMessage(message), on the message that was returned
ExtractAgainCall ==
    /\ call.fn = "extractCommitMessage"
    /\ Len(ret) = 1
    /\ ret' = Append(ret, ExtractCommitMessage(ret[1]))
    /\ UNCHANGED <<call, providerVars>>

NextExtract == ExtractCall \/ ExtractAgainCall

SpecExtract == InitExtract /\ [][NextExtract]_vars

\* C11 as claimed: extractCommitMessage applied to its own output returns the
\* same string.
C11_ExtractIdempotent ==
    (call.fn = "extractCommitMessage" /\ Len(ret) = 2) => ret[2] = ret[1]

\* an occurrence of the fence inside the trimmed response, with another
\* character than the backtick on each side of it
InteriorFence(t) ==
    \E i \in 2..(Len(t) - 3) :
        /\ SubSeq(t, i, i + 2) = <<BT, BT, BT>>
        /\ t[i - 1] # BT /\ t[i + 3] # BT

\* C12 as claimed: only a leading and a trailing fence marker are stripped, so
\* a fence in the interior of the response is still in the message.
C12_InteriorFencePreserved ==
    (call.fn = "extractCommitMessage" /\ Len(ret) >= 1
        /\ InteriorFence(Trim(call.response)))
      => IsSubText(<<BT, BT, BT>>, ret[1])

\* ----------------------------------- specification: setCommitMessage alone

MaxMessageLen == 3
Messages == {Str(t) : t \in Texts({"a", "b"}, MaxMessageLen)}

\* the provider with any target repository (the tests set the field), the
\* input boxes and the clipboard holding earlier texts
InitSink ==
    /\ ProviderInit
    /\ call \in [fn : {"setCommitMessage"}, message : Messages,
                 targetRepository : Repos \cup {Null},
                 inputBox : [Repos -> {"", "old"}],
                 clipboard : {Null, "old"}, write : ClipboardWrites]
    /\ ret = <<>>

\* the fields are set as the call names them
ArrangeSink ==
    /\ call.fn = "setCommitMessage"
    /\ ret = <<>>
    /\ <<targetRepository, inputBox, clipboard>>
          # <<call.targetRepository, call.inputBox, call.clipboard>>
    /\ targetRepository' = call.targetRepository
    /\ inputBox' = call.inputBox
    /\ clipboard' = call.clipboard
    /\ UNCHANGED <<gitService, previousGitContext, previousCommitMessage,
                   currentWorkspaceRoot, services, run, starts, call, ret>>

\* provider.setCommitMessage(message)
SetCommitMessageCall ==
    /\ call.fn = "setCommitMessage"
    /\ ret = <<>>
    /\ <<targetRepository, inputBox, clipboard>>
          = <<call.targetRepository, call.inputBox, call.clipboard>>
    /\ \E sink \in {SetCommitMessage(call.message, targetRepository,
                                     inputBox, clipboard, call.write)} :
          /\ inputBox' = sink.inputBox
          /\ clipboard' = sink.clipboard
          /\ ret' = <<sink>>
    /\ UNCHANGED <<gitService, previousGitContext, previousCommitMessage,
                   targetRepository, currentWorkspaceRoot, services, run,
                   starts, call>>

NextSink == ArrangeSink \/ SetCommitMessageCall

SpecSink == InitSink /\ [][NextSink]_vars

SinkDone == call.fn = "setCommitMessage" /\ ret # <<>>

\* C13, read with the delivery failure that is to be reported: after
\* setCommitMessage(m) with a target repository, the input box of that
\* repository holds exactly m, every other input box and the clipboard are as
\* before and nothing is shown; without a target the input boxes are as
\* before, and either the clipboard holds m and the user is told of the
\* fallback (exactly one sink has received the message), or the write to the
\* clipboard has failed, the call throws and no fallback is announced.
C13_ExactlyOneSink ==
    SinkDone =>
        IF call.targetRepository # Null
        THEN /\ inputBox[call.targetRepository] = call.message
             /\ \A b \in Repos \ {call.targetRepository} :
                   inputBox[b] = call.inputBox[b]
             /\ clipboard = call.clipboard
             /\ ret[1].shown = <<>>
        ELSE /\ inputBox = call.inputBox
             /\ \/ /\ clipboard = call.message
                   /\ Len(ret[1].shown) = 1 /\ ret[1].shown[1].kind = "info"
                   /\ ret[1].completion.ok
                \/ /\ clipboard = call.clipboard
                   /\ ret[1].shown = <<>>
                   /\ ~ret[1].completion.ok

\* ------------------------- specification: the provider's runs, scheduled

\* The event loop runs every continuation whose promise has settled.  The
\* promises that the provider's own code settles do settle: gatherChanges and
\* getDiffForChanges run their git queries with spawnSync, getCommitContext
\* and buildCommitMessagePrompt return once what they await has settled, the
\* delays of the progress ramp are timers, and a rejection reaches its catch
\* clause.  Two promises come from outside and nothing in the code bounds
\* them (no timeout, no cancellation at part_001 lines 263-265): that of
\* addCustomInstructions, awaited at awaitPrompt, and that of
\* singleCompletionHandler, awaited at awaitCompletion.  No fairness is
\* assumed for BuildPrompt and CompletionSettles: a run may wait there for
\* ever.
\* Each continuation of run r is enabled exactly while the run waits at its
\* await (each of its branches ends in Settle, which moves the run on), so
\* the weak fairness of a continuation that computes a query result, a
\* document or a prompt is written with that condition for ENABLED.
SpecFair ==
    /\ Spec
    /\ \A r \in Runs :
          /\ <>[](run[r].pc = "awaitStaged") => []<><<AfterStaged(r)>>_vars
          /\ <>[](run[r].pc = "awaitUnstaged") => []<><<AfterUnstaged(r)>>_vars
          /\ <>[](run[r].pc = "awaitGathered") => []<><<AfterGathered(r)>>_vars
          /\ <>[](run[r].pc = "awaitDiff") => []<><<AfterDiff(r)>>_vars
          /\ <>[](run[r].pc = "awaitContext") => []<><<AfterContext(r)>>_vars
          /\ <>[](run[r].pc = "awaitBuilt") => []<><<CallCompletion(r)>>_vars
          /\ <>[](run[r].pc = "awaitMessage") => []<><<Deliver(r)>>_vars
          /\ WF_vars(Catch(r))

\* the completion capability is called at most once, after the call of
\* getCommitContext has returned its document and the prompt is built;
\* getCommitContext is called only for a non-empty change list obtained from
\* gatherChanges
InOrder(rr) ==
    \A i \in 1..Len(rr.log) :
        /\ rr.log[i].op = "complete" =>
              /\ i > 1 /\ rr.log[i - 1].op = "getCommitContext"
              /\ rr.diff = <<>> /\ rr.prompt # <<>>
              /\ rr.pc \notin {"awaitDiff", "awaitContext", "awaitPrompt", "awaitBuilt"}
              /\ \A j \in 1..Len(rr.log) : rr.log[j].op = "complete" => j = i
        /\ rr.log[i].op = "getCommitContext" =>
              /\ i > 1 /\ rr.log[i - 1].op = "gatherChanges"
              /\ rr.log[i - 1].count > 0
              /\ rr.changes # <<>>
        /\ rr.log[i].op = "gatherChanges" =>
              \A j \in 1..(i - 1) : rr.log[j].op = "gatherChanges"

\* a run writes a sink only in the step that ends it with success, after its
\* completion call has returned a response (the other writer of the sinks is a
\* direct call of setCommitMessage, which is no run)
DeliveryStep ==
    (inputBox' # inputBox \/ clipboard' # clipboard) =>
        /\ ret' # <<>>
        /\ ret'[1].kind # "direct" =>
              /\ ret'[1].kind = "vscode" /\ ret'[1].outcome = "success"
              /\ ret'[1].response # <<>>
              /\ Invoked(ret'[1], "complete")
              /\ \E r \in Runs : run[r].pc = "awaitMessage" /\ run'[r].pc = "idle"

\* the calls of every run are in order, and a run that waits for the
\* completion or has passed it has called the completion capability
RunsInOrder ==
    \A rr \in RunRecords :
        /\ InOrder(rr)
        /\ (rr.pc \in {"awaitCompletion", "awaitMessage"}
                \/ rr.outcome = "success")
              => Invoked(rr, "complete")

C15_Step ==
    (ret' = <<>> \/ ret'[1].kind # "direct") =>
        /\ \A repo \in Repos :
              inputBox'[repo] # inputBox[repo] =>
                  /\ ret' # <<>>
                  /\ ret'[1].kind = "vscode" /\ ret'[1].outcome = "success"
                  /\ Invoked(ret'[1], "complete") /\ ret'[1].response # <<>>
                  /\ \E r \in Runs : run[r].pc = "awaitMessage" /\ run'[r].pc = "idle"
                  /\ inputBox'[repo] = Str(ExtractCommitMessage(ret'[1].response[1]))
        /\ (ret' # <<>> /\ ret'[1].outcome # "success") => inputBox' = inputBox

\* C15: no partial or garbled message is written to the sink: the input box
\* of a repository is modified only after the completion call of an
\* interactive run has succeeded, and then to the post-processed message; on
\* 'no changes' and on every failure the input boxes are left unchanged.
C15_InputBoxOnlyOnSuccess == [][C15_Step]_vars

\* an interactive run has just delivered a message that post-processing
\* changed (the quotes and the line end of the response are gone)
C15_Witness ==
    \E rr \in EndedRuns :
        /\ rr.kind = "vscode" /\ rr.outcome = "success"
        /\ Str(rr.response[1]) # Str(ExtractCommitMessage(rr.response[1]))
        /\ inputBox[targetRepository] = Str(ExtractCommitMessage(rr.response[1]))

\* the error notifications a run has shown
ErrorNotifications(rr) == SelectSeq(rr.shown, LAMBDA n : n.kind = "error")

\* an interactive run that has ended without a message and not by 'no changes'
FailedInteractive(rr) ==
    rr.kind = "vscode" /\ rr.outcome \in {"failed", "rejected"}

\* C16 as claimed: every failure of an interactive run (no repository
\* resolved, completion failure, delivery failure) is shown to the user as
\* exactly one error notification.
C16_OneErrorNotification ==
    \A rr \in EndedRuns :
        FailedInteractive(rr) => Len(ErrorNotifications(rr)) = 1

\* --------------- specification: callAIForCommitMessageWithProgress alone

\* The progress values are JavaScript numbers: IEEE 754 binary64, every
\* operation rounded to the nearest value of 53 significant bits, ties to the
\* even one.  A number is kept as sign * significand * 2^exponent with the
\* significand a natural number of exactly 53 bits (0 for the number 0); the
\* values of the progress bar are far from the smallest and the largest
\* exponent, so no subnormal value, infinity or NaN occurs.

\* A natural number of any size is the sequence of its digits to the base
\* Limb, the lowest first, the highest not 0 (the products of two digits are
\* below 2^31).
LimbBits == 15
Limb == 32768
\* the bits of a significand
Precision == 53

RECURSIVE NatOf(_)
NatOf(n) == IF n = 0 THEN <<>> ELSE <<n % Limb>> \o NatOf(n \div Limb)

RECURSIVE Trimmed(_)
Trimmed(a) ==
    IF a # <<>> /\ a[Len(a)] = 0 THEN Trimmed(SubSeq(a, 1, Len(a) - 1)) ELSE a

Digit(a, k) == IF k <= Len(a) THEN a[k] ELSE 0

RECURSIVE AddFrom(_, _, _, _)
AddFrom(a, b, k, carry) ==
    IF k > Len(a) /\ k > Len(b)
    THEN IF carry = 0 THEN <<>> ELSE <<carry>>
    ELSE LET x == Digit(a, k) + Digit(b, k) + carry
         IN  <<x % Limb>> \o AddFrom(a, b, k + 1, x \div Limb)

NatPlus(a, b) == AddFrom(a, b, 1, 0)

\* a - b for a >= b
RECURSIVE SubFrom(_, _, _, _)
SubFrom(a, b, k, borrow) ==
    IF k > Len(a) THEN <<>>
    ELSE LET x == a[k] - Digit(b, k) - borrow
         IN  IF x < 0 THEN <<x + Limb>> \o SubFrom(a, b, k + 1, 1)
             ELSE <<x>> \o SubFrom(a, b, k + 1, 0)

NatMinus(a, b) == Trimmed(SubFrom(a, b, 1, 0))

NatLess(a, b) ==
    IF Len(a) # Len(b) THEN Len(a) < Len(b)
    ELSE \E k \in 1..Len(a) :
            /\ a[k] < b[k]
            /\ \A j \in (k + 1)..Len(a) : a[j] = b[j]

\* a * f for a digit f (or Limb itself)
RECURSIVE ScaleFrom(_, _, _, _)
ScaleFrom(a, f, k, carry) ==
    IF k > Len(a)
    THEN IF carry = 0 THEN <<>> ELSE <<carry>>
    ELSE LET x == a[k] * f + carry
         IN  <<x % Limb>> \o ScaleFrom(a, f, k + 1, x \div Limb)

Scaled(a, f) == IF f = 0 THEN <<>> ELSE ScaleFrom(a, f, 1, 0)

\* a * Limb^q
ShiftLimbs(a, q) == IF a = <<>> THEN <<>> ELSE [k \in 1..q |-> 0] \o a

RECURSIVE NatTimes(_, _)
NatTimes(a, b) ==
    IF b = <<>> THEN <<>>
    ELSE NatPlus(Scaled(a, b[1]), ShiftLimbs(NatTimes(a, Tail(b)), 1))

\* quotient and remainder of a by a divisor d of one digit, from the highest
\* digit of a (at k) down
RECURSIVE DivFrom(_, _, _, _)
DivFrom(a, d, k, rem) ==
    IF k = 0 THEN [q |-> <<>>, r |-> rem]
    ELSE LET x == rem * Limb + a[k]
             rest == DivFrom(a, d, k - 1, x % d)
         IN  [q |-> Append(rest.q, x \div d), r |-> rest.r]

ShortDivide(a, d) ==
    LET result == DivFrom(a, d, Len(a), 0)
    IN  [q |-> Trimmed(result.q), r |-> result.r]

\* a * 2^k
ShiftLeft(a, k) == ShiftLimbs(Scaled(a, 2 ^ (k % LimbBits)), k \div LimbBits)

\* a / 2^k, rounded down
ShiftRight(a, k) ==
    IF k \div LimbBits >= Len(a) THEN <<>>
    ELSE ShortDivide(SubSeq(a, k \div LimbBits + 1, Len(a)),
                     2 ^ (k % LimbBits)).q

\* the number of bits of a
BitLength(a) ==
    IF a = <<>> THEN 0
    ELSE LimbBits * (Len(a) - 1)
            + (CHOOSE b \in 1..LimbBits :
                  2 ^ (b - 1) <= a[Len(a)] /\ a[Len(a)] < 2 ^ b)

Zero == [sign |-> 1, significand |-> <<>>, exponent |-> 0]

\* the number nearest to sign * n * 2^exponent, or to a value above it by
\* less than 2^exponent when the division that gave n left a remainder
\* (inexact; n then has more than Precision + 1 bits)
Rounded(sign, n, exponent, inexact) ==
    IF n = <<>> THEN Zero
    ELSE LET bits == BitLength(n) IN
         IF bits <= Precision
         THEN [sign |-> sign,
               significand |-> ShiftLeft(n, Precision - bits),
               exponent |-> exponent - (Precision - bits)]
         ELSE LET dropped == bits - Precision
                  kept == ShiftRight(n, dropped)
                  rest == NatMinus(n, ShiftLeft(kept, dropped))
                  half == ShiftLeft(<<1>>, dropped - 1)
                  up == \/ NatLess(half, rest)
                        \/ rest = half /\ (inexact \/ kept[1] % 2 = 1)
                  m == IF up THEN NatPlus(kept, <<1>>) ELSE kept
              IN  IF BitLength(m) > Precision
                  THEN [sign |-> sign, significand |-> ShiftRight(m, 1),
                        exponent |-> exponent + dropped + 1]
                  ELSE [sign |-> sign, significand |-> m,
                        exponent |-> exponent + dropped]

\* the number of an integer literal
NumberOf(n) ==
    IF n < 0 THEN Rounded(-1, NatOf(-n), 0, FALSE)
    ELSE Rounded(1, NatOf(n), 0, FALSE)

Negated(x) == IF x.significand = <<>> THEN x ELSE [x EXCEPT !.sign = -x.sign]

\* x + y
Plus(x, y) ==
    IF x.significand = <<>> THEN y
    ELSE IF y.significand = <<>> THEN x
    ELSE LET exponent == IF x.exponent <= y.exponent THEN x.exponent
                         ELSE y.exponent
             a == ShiftLeft(x.significand, x.exponent - exponent)
             b == ShiftLeft(y.significand, y.exponent - exponent)
         IN  IF x.sign = y.sign
             THEN Rounded(x.sign, NatPlus(a, b), exponent, FALSE)
             ELSE IF a = b THEN Zero
             ELSE IF NatLess(b, a)
             THEN Rounded(x.sign, NatMinus(a, b), exponent, FALSE)
             ELSE Rounded(y.sign, NatMinus(b, a), exponent, FALSE)

\* x - y
Minus(x, y) == Plus(x, Negated(y))

\* x * y
Times(x, y) ==
    IF x.significand = <<>> \/ y.significand = <<>> THEN Zero
    ELSE Rounded(x.sign * y.sign, NatTimes(x.significand, y.significand),
                 x.exponent + y.exponent, FALSE)

\* the odd part of a and the power of 2 it is multiplied with in a (a > 0)
RECURSIVE OddPart(_, _)
OddPart(a, twos) ==
    IF a[1] = 0 THEN OddPart(Tail(a), twos + LimbBits)
    ELSE IF a[1] % 2 = 0 THEN OddPart(ShiftRight(a, 1), twos + 1)
    ELSE [odd |-> a, twos |-> twos]

\* x / y for y # 0.  The divisors of the progress arithmetic are integers
\* (maxProgress, 100, the number of files) whose odd part is one digit, and
\* the division is made by that digit.
Divided(x, y) ==
    IF x.significand = <<>> THEN Zero
    ELSE LET divisor == OddPart(y.significand, 0)
             quotient == ShortDivide(ShiftLeft(x.significand, 4 * LimbBits),
                                     divisor.odd[1])
         IN  CASE Len(divisor.odd) = 1 ->
                    Rounded(x.sign * y.sign, quotient.q,
                            x.exponent - 4 * LimbBits
                                - y.exponent - divisor.twos,
                            quotient.r # 0)

\* x < y
Less(x, y) ==
    LET d == Minus(y, x) IN d.significand # <<>> /\ d.sign = 1

MathMax(x, y) == IF Less(x, y) THEN y ELSE x
MathMin(x, y) == IF Less(y, x) THEN y ELSE x

maxProgress == 20
\* the literal 1.0
maxIncrement == NumberOf(1)
\* the literal 0.05: the number nearest to 5/100
minIncrement == Divided(NumberOf(5), NumberOf(100))

\* the files of the diff section of the run that makes the call
MaxProgressFiles == 3

\* progress.report({increment: 10, ...}) before the diff is collected
StartIncrement == 10
\* the share of the bar given to the diff section: (percentage / 100) * 70
DiffShare == 70

\* variant: the increment is not limited by what is left of maxProgress
TickIncrement_NoCeiling(totalProgressUsed) ==
    LET remainingProgress ==
            Divided(Minus(NumberOf(maxProgress), totalProgressUsed),
                    NumberOf(maxProgress))
    IN  MathMax(Plus(Times(Times(remainingProgress, remainingProgress),
                           maxIncrement),
                     minIncrement),
                minIncrement)

\* the increment of one tick of the interval timer:
\* remainingProgress^2 * maxIncrement + minIncrement, limited from below by
\* minIncrement and from above by what is left of maxProgress
TickIncrement(totalProgressUsed) ==
    LET remainingProgress ==
            Divided(Minus(NumberOf(maxProgress), totalProgressUsed),
                    NumberOf(maxProgress))
        incrementLimited ==
            MathMax(Plus(Times(Times(remainingProgress, remainingProgress),
                               maxIncrement),
                         minIncrement),
                    minIncrement)
    IN  MathMin(incrementLimited,
                Minus(NumberOf(maxProgress), totalProgressUsed))

\* what callAIForCommitMessage gives: the message, or what it throws
ProgressCompletions == {Ok("fix"), Throw(Error("AI API error"))}

\* the test of the loop that fills the bar: i < maxProgress - totalProgressUsed
RampGoesOn(c) ==
    Less(NumberOf(c.i), Minus(NumberOf(maxProgress), c.totalProgressUsed))

\* variant: clearInterval only on the way of the return statement
Settled_ClearedOnReturn(c, outcome) ==
    [c EXCEPT !.pc = "settled",
              !.timer = IF outcome.ok THEN "cleared" ELSE @]

\* the finally clause runs, then the promise of the call settles
Settled(c, outcome) ==
    [c EXCEPT !.pc = "settled", !.timer = "cleared"]

\* onProgress(...) as the caller sees it: whether a report is made after the
\* call has settled.  What is reported is kept by its source: the increments
\* of the timer add up to totalProgressUsed, the unit steps of the loop are
\* counted.
Reported(c) == [c EXCEPT !.reportedAfterSettling = @ \/ c.pc = "settled"]

\* percentage = (processedFiles / files.length) * 100, as a number
PercentageNumber(percentage) ==
    Times(Divided(NumberOf(percentage.num \div 100), NumberOf(percentage.den)),
          NumberOf(100))

\* onDiffProgress(percentage) of generateCommitMessageVsCode, applied to the
\* percentages getDiffForChanges reports: the increments given to
\* progress.report, each the growth of currentProgress = percentage/100 * 70
RECURSIVE OnDiffProgress(_, _)
OnDiffProgress(percentages, lastReportedProgress) ==
    IF percentages = <<>> THEN <<>>
    ELSE LET percentage == PercentageNumber(Head(percentages))
             currentProgress == Times(Divided(percentage, NumberOf(100)),
                                      NumberOf(DiffShare))
             increment == Minus(currentProgress, lastReportedProgress)
         IN  IF Less(Zero, increment)
             THEN <<increment>> \o OnDiffProgress(Tail(percentages), currentProgress)
             ELSE OnDiffProgress(Tail(percentages), lastReportedProgress)

\* what an interactive run has reported when it calls
\* callAIForCommitMessageWithProgress: 10, then the increments of the diff
\* section of `total` files of which `processed` were reported (all of them
\* unless a single-file diff query failed)
ReportedBefore(total, processed) ==
    <<NumberOf(StartIncrement)>>
        \o OnDiffProgress([k \in 1..processed |-> Percentage(k, total)], Zero)

InitProgress ==
    /\ ProviderInit
    /\ \E total \in 0..MaxProgressFiles : \E processed \in 0..total :
          call = [fn |-> "callAIForCommitMessageWithProgress", pc |-> "notCalled",
                  timer |-> "none", totalProgressUsed |-> Zero, i |-> 0,
                  increment |-> <<>>, unitSteps |-> 0,
                  reportedAfterSettling |-> FALSE, message |-> Null,
                  before |-> ReportedBefore(total, processed)]
    /\ ret = <<>>

ProgressFrame ==
    UNCHANGED <<gitService, previousGitContext, previousCommitMessage,
                targetRepository, currentWorkspaceRoot, services, inputBox,
                clipboard, run, starts>>

\* the call up to its await: the timer is started, the completion is pending
CallWithProgress ==
    /\ call.fn = "callAIForCommitMessageWithProgress"
    /\ call.pc = "notCalled"
    /\ call' = [call EXCEPT !.pc = "awaitCompletion", !.timer = "live"]
    /\ UNCHANGED ret
    /\ ProgressFrame

\* the callback of setInterval: it runs whenever the timer is not cleared.
\* Once totalProgressUsed is maxProgress the increment it reports is 0.
Tick ==
    /\ call.fn = "callAIForCommitMessageWithProgress"
    /\ call.timer = "live"
    /\ \E increment \in {TickIncrement(call.totalProgressUsed)} :
          call' = [Reported(call) EXCEPT
                      !.totalProgressUsed = Plus(@, increment),
                      !.increment = <<increment>>]
    /\ UNCHANGED ret
    /\ ProgressFrame

\* one test of the loop: another report and a delay, or the return
RampOrReturn(c) ==
    IF RampGoesOn(c)
    THEN /\ call' = [Reported(c) EXCEPT !.unitSteps = @ + 1,
                                        !.pc = "awaitDelay"]
         /\ UNCHANGED ret
    ELSE /\ call' = Settled(c, Ok(c.message))
         /\ ret' = <<Ok(c.message)>>

\* callAIForCommitMessage settles: a message starts the loop that fills the
\* bar, a rejection leaves through the finally clause
ProgressCompletionSettles ==
    /\ call.fn = "callAIForCommitMessageWithProgress"
    /\ call.pc = "awaitCompletion"
    /\ \E outcome \in ProgressCompletions :
          IF outcome.ok
          THEN RampOrReturn([call EXCEPT !.message = outcome.val, !.i = 0])
          ELSE /\ call' = Settled(call, outcome)
               /\ ret' = <<outcome>>
    /\ ProgressFrame

\* delay(25) is over: i++ and the next test of the loop
DelayElapses ==
    /\ call.fn = "callAIForCommitMessageWithProgress"
    /\ call.pc = "awaitDelay"
    /\ RampOrReturn([call EXCEPT !.i = @ + 1])
    /\ ProgressFrame

NextProgress ==
    \/ CallWithProgress
    \/ Tick
    \/ ProgressCompletionSettles
    \/ DelayElapses

SpecProgress == InitProgress /\ [][NextProgress]_vars

ProgressSettled ==
    call.fn = "callAIForCommitMessageWithProgress" /\ call.pc = "settled"

\* C17: no dangling timer: whether the completion call resolves or rejects,
\* the periodic progress tick is cancelled when
\* callAIForCommitMessageWithProgress settles, and no progress is reported
\* after that: nothing of the call changes any more.
C17_NoDanglingTimer ==
    /\ [](ProgressSettled =>
            /\ call.timer = "cleared" /\ ret # <<>>
            /\ ~call.reportedAfterSettling)
    /\ [][ProgressSettled => call' = call]_vars

\* the completion call was rejected after the timer had reported progress
\* more than once
C17_Witness ==
    /\ ProgressSettled
    /\ ret # <<>> /\ ~ret[1].ok
    /\ Less(NumberOf(2), call.totalProgressUsed)
    /\ call.timer = "cleared"

\* ------------------------------------ claims about the provider's service

\* the services constructed so far that have not been disposed
LiveServices == {i \in 1..Len(services) : ~services[i].disposed}

\* at most one service is live, it is the one the provider holds, and the
\* held service is that of currentWorkspaceRoot
OneLiveService ==
    /\ Cardinality(LiveServices) <= 1
    /\ LiveServices \subseteq {gitService}
    /\ gitService # 0 =>
          /\ gitService \in LiveServices
          /\ Str(services[gitService].workspaceRoot) = currentWorkspaceRoot

\* a service is constructed only when the root changes, with every earlier
\* service disposed; a request for the root in use constructs and disposes
\* nothing; the root of a service stays as constructed
ServiceStep ==
    /\ Len(services') >= Len(services)
    /\ \A i \in 1..Len(services) :
          services'[i].workspaceRoot = services[i].workspaceRoot
    /\ Len(services') > Len(services) =>
          /\ Len(services') = Len(services) + 1
          /\ currentWorkspaceRoot' # currentWorkspaceRoot
          /\ Str(services'[Len(services')].workspaceRoot) = currentWorkspaceRoot'
          /\ gitService' = Len(services')
          /\ \A i \in 1..Len(services) : services'[i].disposed
    /\ (starts' # starts /\ currentWorkspaceRoot' = currentWorkspaceRoot) =>
          /\ services' = services
          /\ gitService' = gitService

\* C18: across any sequence of requests the provider holds at most one live
\* GitExtensionService, bound to currentWorkspaceRoot; a request for another
\* root disposes the previous service before the new one is constructed, a
\* request for the same root reuses the service without disposing it, and the
\* root of a service never changes.
C18_OneServicePerRoot == []OneLiveService /\ [][ServiceStep]_vars

\* a second request named another root: the first service is disposed and the
\* second, live, is held
C18_Witness ==
    /\ Len(services) = 2
    /\ services[1].disposed /\ ~services[2].disposed
    /\ services[1].workspaceRoot # services[2].workspaceRoot
    /\ gitService = 2

\* ------------------- specification: the provider's service and dispose()

\* the calls made to one provider
MaxCalls == 5

InitLifecycle ==
    /\ ProviderInit
    /\ call = [fn |-> "lifecycle", calls |-> 0, disposals |-> 0]
    /\ ret = <<>>

LifecycleFrame ==
    UNCHANGED <<previousGitContext, previousCommitMessage, targetRepository,
                inputBox, clipboard, run, starts>>

\* the first lines of gatherGitChanges(workspacePath): the service is replaced
\* when the root changes, and a missing service is an error
EnsureService(workspacePath) ==
    /\ call.fn = "lifecycle"
    /\ call.calls < MaxCalls
    /\ LET switch == currentWorkspaceRoot # Str(workspacePath)
           released == IF gitService # 0
                       THEN [services EXCEPT ![gitService].disposed = TRUE]
                       ELSE services
       IN  /\ services' = IF switch
                          THEN Append(released, [workspaceRoot |-> workspacePath,
                                                 disposed |-> FALSE])
                          ELSE services
           /\ gitService' = IF switch THEN Len(services') ELSE gitService
           /\ currentWorkspaceRoot' = Str(workspacePath)
           /\ ret' = <<[op |-> "gatherGitChanges", held |-> gitService,
                        completion |-> IF gitService' = 0
                                       THEN Throw(Error("Failed to initialize Git service"))
                                       ELSE Ok(Null)]>>
    /\ call' = [call EXCEPT !.calls = @ + 1]
    /\ LifecycleFrame

\* provider.dispose(), its completion and the service held before it
DisposeCall ==
    /\ call.fn = "lifecycle"
    /\ call.calls < MaxCalls
    /\ \E after \in {DisposeProvider(gitService, services)} :
          /\ services' = after.services
          /\ gitService' = after.gitService
          /\ ret' = <<[op |-> "dispose", held |-> gitService,
                       completion |-> after.completion]>>
    /\ call' = [call EXCEPT !.calls = @ + 1, !.disposals = @ + 1]
    /\ UNCHANGED currentWorkspaceRoot
    /\ LifecycleFrame

NextLifecycle ==
    \/ \E workspacePath \in Roots : EnsureService(workspacePath)
    \/ DisposeCall

SpecLifecycle == InitLifecycle /\ [][NextLifecycle]_vars

Disposed == call.fn = "lifecycle" /\ ret # <<>> /\ ret[1].op = "dispose"

\* dispose() has returned: it has not thrown, no service is held, and the
\* service held before it is disposed
AfterDispose ==
    Disposed =>
        /\ ret[1].completion.ok
        /\ gitService = 0
        /\ ret[1].held # 0 => services[ret[1].held].disposed

\* a step of dispose() touches no service but the held one, and with no
\* service held it changes nothing
DisposeStep ==
    (call.fn = "lifecycle" /\ call'.disposals # call.disposals) =>
        /\ Len(services') = Len(services)
        /\ \A i \in 1..Len(services) : i # gitService => services'[i] = services[i]
        /\ gitService = 0 =>
              /\ services' = services
              /\ gitService' = gitService
              /\ currentWorkspaceRoot' = currentWorkspaceRoot

\* C19: CommitMessageProvider.dispose() disposes the held git service (and so
\* its ignore controller) and sets the reference to null; it does not throw
\* when no service is held, and a second call changes nothing.
C19_DisposeReleasesOnce == []AfterDispose /\ [][DisposeStep]_vars

\* dispose() called twice in a row on a provider that held a service
C19_Witness ==
    /\ Disposed
    /\ call.disposals >= 2
    /\ ret[1].held = 0
    /\ ret[1].completion.ok
    /\ Len(services) >= 1 /\ services[Len(services)].disposed
    /\ gitService = 0

\* ------- specification: the configuration callAIForCommitMessage selects

\* the entries of listApiConfigMeta
MaxConfigs == 2

ConfigIds == {"c1", "c2"}

\* a value that may be undefined (<<>>) is truthy when defined and not ""
Truthy(opt) == opt # <<>> /\ opt[1] # ""

\* contextProxy.getProviderSettings(): the configuration in use
ActiveConfigs ==
    {[apiProvider |-> <<"anthropic">>, apiModelId |-> "active"],
     [apiProvider |-> <<>>, apiModelId |-> "active"]}

\* providerSettingsManager.getProfile({id}): the profile stored under the id
\* (with or without a provider), or an error when there is none
ProfileOutcomes(id) ==
    {Ok([name |-> id, apiProvider |-> <<"openai">>, apiModelId |-> "dedicated"]),
     Ok([name |-> id, apiProvider |-> <<>>, apiModelId |-> "dedicated"]),
     Throw(Error("no profile " \o id))}

\* const { name: _, ...providerSettings } = profile
WithoutName(profile) ==
    [apiProvider |-> profile.apiProvider, apiModelId |-> profile.apiModelId]

\* id === commitMessageApiConfigId for some entry of the list
Listed(id, listApiConfigMeta) ==
    \E k \in 1..Len(listApiConfigMeta) : listApiConfigMeta[k] = id

\* variant: the profile is loaded without looking the id up in the list
ConfigToUse_ListNotAsked(apiConfiguration, commitMessageApiConfigId, listApiConfigMeta, profile) ==
    IF Truthy(commitMessageApiConfigId)
    THEN [getProfile |-> TRUE,
          config |-> IF profile.ok /\ Truthy(profile.val.apiProvider)
                     THEN WithoutName(profile.val)
                     ELSE apiConfiguration,
          warned |-> ~profile.ok]
    ELSE [getProfile |-> FALSE, config |-> apiConfiguration, warned |-> FALSE]

\* configToUse of callAIForCommitMessage, whether getProfile was called and
\* whether the warning of the catch clause was logged
ConfigToUse(apiConfiguration, commitMessageApiConfigId, listApiConfigMeta, profile) ==
    IF /\ Truthy(commitMessageApiConfigId)
       /\ Listed(commitMessageApiConfigId[1], listApiConfigMeta)
    THEN [getProfile |-> TRUE,
          config |-> IF profile.ok /\ Truthy(profile.val.apiProvider)
                     THEN WithoutName(profile.val)
                     ELSE apiConfiguration,
          warned |-> ~profile.ok]
    ELSE [getProfile |-> FALSE, config |-> apiConfiguration, warned |-> FALSE]

\* what buildCommitMessagePrompt gives: the prompt, or the rejection of
\* addCustomInstructions inside it
PromptOutcomes == {Ok("prompt"), Throw(Error("EACCES: rules"))}

\* what singleCompletionHandler gives: the response, or what it throws
ConfigCompletions == {Ok(<<"f", "i", "x", "\n">>), Throw(Error("AI API error"))}

\* the settings read by one call: the active configuration, the id of the
\* dedicated one (undefined, empty or an id), the list of known
\* configurations (undefined reads as empty) and what getProfile gives
InitConfig ==
    /\ ProviderInit
    /\ \E id \in {<<>>, <<"">>} \cup {<<c>> : c \in ConfigIds} :
       \E list \in UNION {[1..k -> ConfigIds] : k \in 0..MaxConfigs} :
       \E active \in ActiveConfigs :
       \E profile \in ProfileOutcomes(IF id = <<>> THEN "" ELSE id[1]) :
          call = [fn |-> "callAIForCommitMessage", pc |-> "notCalled",
                  apiConfiguration |-> active,
                  commitMessageApiConfigId |-> id,
                  listApiConfigMeta |-> list,
                  profile |-> profile,
                  getProfile |-> FALSE, warned |-> FALSE,
                  configToUse |-> active,
                  prompt |-> <<>>,
                  singleCompletionHandler |-> <<>>]
    /\ ret = <<>>

ConfigFrame ==
    UNCHANGED <<gitService, previousGitContext, previousCommitMessage,
                targetRepository, currentWorkspaceRoot, services,
                inputBox, clipboard, run, starts>>

\* callAIForCommitMessage up to its first await: that of getProfile when the
\* id is set and listed (line 250), else that of buildCommitMessagePrompt
\* (line 263) with configToUse the active configuration
CallAIForCommitMessage ==
    /\ call.fn = "callAIForCommitMessage"
    /\ call.pc = "notCalled"
    /\ \E selected \in {ConfigToUse(call.apiConfiguration,
                                     call.commitMessageApiConfigId,
                                     call.listApiConfigMeta, call.profile)} :
          call' = [call EXCEPT
                      !.getProfile = selected.getProfile,
                      !.configToUse = call.apiConfiguration,
                      !.pc = IF selected.getProfile THEN "awaitProfile"
                             ELSE "awaitPrompt"]
    /\ UNCHANGED ret
    /\ ConfigFrame

\* getProfile settles: its settings are taken when they name a provider, a
\* rejection is logged; either way buildCommitMessagePrompt is called next
ProfileSettles ==
    /\ call.fn = "callAIForCommitMessage"
    /\ call.pc = "awaitProfile"
    /\ \E selected \in {ConfigToUse(call.apiConfiguration,
                                     call.commitMessageApiConfigId,
                                     call.listApiConfigMeta, call.profile)} :
          call' = [call EXCEPT !.configToUse = selected.config,
                               !.warned = selected.warned,
                               !.pc = "awaitPrompt"]
    /\ UNCHANGED ret
    /\ ConfigFrame

\* buildCommitMessagePrompt settles: with the prompt
\* singleCompletionHandler(configToUse, prompt) is called, a rejection is
\* that of callAIForCommitMessage and no completion is asked for
PromptSettles ==
    /\ call.fn = "callAIForCommitMessage"
    /\ call.pc = "awaitPrompt"
    /\ \E built \in PromptOutcomes :
          IF built.ok
          THEN /\ call' = [call EXCEPT
                              !.prompt = <<built>>,
                              !.singleCompletionHandler =
                                  Append(@, [config |-> call.configToUse,
                                             prompt |-> built.val]),
                              !.pc = "awaitCompletion"]
               /\ UNCHANGED ret
          ELSE /\ call' = [call EXCEPT !.prompt = <<built>>, !.pc = "settled"]
               /\ ret' = <<built>>
    /\ ConfigFrame

\* singleCompletionHandler settles: the message extracted from the response
\* is returned, a rejection is that of callAIForCommitMessage
ConfigCompletionSettles ==
    /\ call.fn = "callAIForCommitMessage"
    /\ call.pc = "awaitCompletion"
    /\ \E response \in ConfigCompletions :
          ret' = <<IF response.ok
                   THEN Ok(Str(ExtractCommitMessage(response.val)))
                   ELSE response>>
    /\ call' = [call EXCEPT !.pc = "settled"]
    /\ ConfigFrame

NextConfig ==
    \/ CallAIForCommitMessage
    \/ ProfileSettles
    \/ PromptSettles
    \/ ConfigCompletionSettles

SpecConfig == InitConfig /\ [][NextConfig]_vars

InConfigCall == call.fn = "callAIForCommitMessage"

\* the dedicated configuration can be used: its id is set and listed, and its
\* profile loads with a provider
DedicatedUsable ==
    /\ Truthy(call.commitMessageApiConfigId)
    /\ Listed(call.commitMessageApiConfigId[1], call.listApiConfigMeta)
    /\ call.profile.ok
    /\ call.profile.val.apiProvider # <<>>

\* the configuration the claim names for the settings of the call
ClaimedConfig ==
    IF DedicatedUsable THEN WithoutName(call.profile.val)
    ELSE call.apiConfiguration

\* C20 as claimed: the dedicated commit-message configuration is used if and
\* only if its id is set, the id is in the list of known configurations and
\* its profile loads with a provider defined; in every other case the active
\* configuration is used, and the completion call is made in every case:
\* a call of callAIForCommitMessage that has settled has called the
\* completion capability once, with that configuration.
C20_ConfigSelection ==
    (InConfigCall /\ call.pc = "settled") =>
        /\ Len(call.singleCompletionHandler) = 1
        /\ call.singleCompletionHandler[1].config = ClaimedConfig

\* the steps of one call: a settled getProfile, resolved or rejected, leads on
\* to buildCommitMessagePrompt, and the completion capability is called in
\* the step in which the prompt is built and in no other
ConfigStep ==
    InConfigCall =>
        /\ call.pc = "awaitProfile" => call'.pc = "awaitPrompt"
        /\ (call'.singleCompletionHandler # call.singleCompletionHandler) =>
              /\ call.pc = "awaitPrompt" /\ call'.pc = "awaitCompletion"
              /\ call'.prompt # <<>> /\ call'.prompt[1].ok
              /\ call'.singleCompletionHandler[1].prompt = call'.prompt[1].val
              /\ ret' = <<>>

\* C20, amended: the completion capability is called with the dedicated
\* configuration if and only if its id is set, listed and its profile loads
\* with a provider defined, and with the active configuration in every other
\* case; getProfile is asked exactly when the id is set and listed, and its
\* failure is logged and does not end the call.  Whatever configuration was
\* selected, the completion call is made once when buildCommitMessagePrompt
\* has resolved, and not at all when buildCommitMessagePrompt rejects: then
\* callAIForCommitMessage rejects with that error.
C20_ConfigSelectionWhenPromptBuilt ==
    /\ [](InConfigCall =>
            /\ Len(call.singleCompletionHandler) <= 1
            /\ \A k \in 1..Len(call.singleCompletionHandler) :
                  call.singleCompletionHandler[k].config = ClaimedConfig
            /\ call.pc \notin {"notCalled"} =>
                  /\ call.getProfile =
                        (/\ Truthy(call.commitMessageApiConfigId)
                         /\ Listed(call.commitMessageApiConfigId[1],
                                   call.listApiConfigMeta))
            /\ call.pc \in {"awaitPrompt", "awaitCompletion", "settled"} =>
                  call.warned = (call.getProfile /\ ~call.profile.ok)
            /\ call.pc \in {"awaitCompletion", "settled"} =>
                  /\ call.prompt # <<>>
                  /\ Len(call.singleCompletionHandler)
                        = (IF call.prompt[1].ok THEN 1 ELSE 0)
                  /\ ~call.prompt[1].ok => ret = <<call.prompt[1]>>)
    /\ [][ConfigStep]_vars

\* the id is set and listed but its profile does not load: the failure was
\* logged, the prompt was built and the completion was called with the active
\* configuration
C20_Witness ==
    /\ InConfigCall /\ call.pc = "settled"
    /\ call.commitMessageApiConfigId = <<"c2">>
    /\ call.listApiConfigMeta = <<"c1", "c2">>
    /\ ~call.profile.ok
    /\ call.getProfile /\ call.warned
    /\ call.prompt # <<>> /\ call.prompt[1].ok
    /\ Len(call.singleCompletionHandler) = 1
    /\ call.singleCompletionHandler[1].config = call.apiConfiguration
    /\ ret # <<>> /\ ret[1].ok

\* ------------- specification: the target of one interactive run resolved

\* the repositories the git extension knows, in its order: every list
\* without repetition of the roots, the nested one among them
RECURSIVE ListsOf(_)
ListsOf(roots) ==
    {<<>>} \cup UNION {{<<root>> \o rest : rest \in ListsOf(roots \ {root})} :
                          root \in roots}

TargetRepositoryLists == ListsOf(TargetRoots)

\* vsRequest?.rootUri: none, a file under each root (the file under the nested
\* root is under RootA as well), a file whose path starts with the text of
\* RootA without being under it, a file under no root
TargetResources ==
    {<<>>} \cup {<<root \o <<"/", "x">>>> : root \in TargetRoots}
          \cup {<<RootA \o <<"x">>>>, <<<<"/", "x">>>>}

\* a new provider and the editor as one call finds it
InitTarget ==
    /\ ProviderInit
    /\ call \in [fn : {"none"}, active : BOOLEAN,
                 repositories : TargetRepositoryLists,
                 resource : TargetResources]
    /\ ret = <<>>

\* generateCommitMessageVsCode(vsRequest) up to its first await
NextTarget ==
    \E r \in Runs : StartVsCode(r, call.active, call.repositories, call.resource)

SpecTarget == InitTarget /\ [][NextTarget]_vars

\* the root at position i is a prefix of the active resource path
RootIsPrefix(i) ==
    /\ call.resource # <<>>
    /\ Len(call.resource[1]) >= Len(call.repositories[i])
    /\ \A k \in 1..Len(call.repositories[i]) :
          call.resource[1][k] = call.repositories[i][k]

\* C21: the interactive path selects the first known repository whose root
\* is a prefix of the active resource path, the first known repository when
\* none is (or no resource is given), and with no known repository or no git
\* extension the run fails with 'Could not determine Git repository' before
\* any gathering, context building or completion call.
C21_TargetResolution ==
    starts = 1 =>
        IF ~call.active \/ call.repositories = <<>>
        THEN /\ targetRepository = Null
             /\ services = <<>> /\ gitService = 0
             /\ \E rr \in EndedRuns :
                   /\ rr.kind = "vscode"
                   /\ rr.thrown = <<Error("Could not determine Git repository")>>
                   /\ rr.log = <<>> /\ rr.prompt = <<>> /\ rr.response = <<>>
        ELSE /\ RunRecords # {}
             /\ \A rr \in RunRecords :
                   rr.kind = "vscode" /\ Str(rr.workspacePath) = targetRepository
             /\ \E i \in 1..Len(call.repositories) :
                   /\ targetRepository = Str(call.repositories[i])
                   /\ \/ RootIsPrefix(i) /\ \A j \in 1..(i - 1) : ~RootIsPrefix(j)
                      \/ i = 1 /\ \A j \in 1..Len(call.repositories) : ~RootIsPrefix(j)

\* the resource is under the nested repository, whose root and the root of
\* the repository around it are both prefixes of its path: the target is the
\* one of the two that comes first in the list, here the outer one, and the
\* repository before them, which does not match, is passed over
C21_Witness ==
    /\ starts = 1
    /\ call.active
    /\ call.repositories = <<RootB, RootA, RootNested>>
    /\ call.resource = <<RootNested \o <<"/", "x">>>>
    /\ RootIsPrefix(2) /\ RootIsPrefix(3)
    /\ targetRepository = Str(RootA)
    /\ run["r1"].pc = "awaitStaged"

\* ------------------------------------ claims about what a run works from

\* C22: when the staged call of gatherChanges returns changes, the unstaged
\* status is never asked for and getCommitContext is called with staged =
\* true; in general getCommitContext gets the flag of the gatherChanges call
\* that returned the non-empty change list.
C22_StagedOnly ==
    \A rr \in RunRecords :
        \A i \in 1..Len(rr.log) :
            /\ (rr.log[i].op = "gatherChanges" /\ rr.log[i].staged
                    /\ rr.log[i].count > 0) =>
                  /\ \A j \in 1..Len(rr.log) :
                        rr.log[j].op = "gatherChanges" => rr.log[j].staged
                  /\ \A j \in 1..Len(rr.log) :
                        rr.log[j].op = "getCommitContext" => rr.log[j].staged
            /\ rr.log[i].op = "getCommitContext" =>
                  /\ i > 1
                  /\ rr.log[i - 1].op = "gatherChanges"
                  /\ rr.log[i - 1].count > 0
                  /\ rr.log[i].staged = rr.log[i - 1].staged

\* a run that found staged changes went on to getCommitContext with them
C22_Witness ==
    \E rr \in RunRecords :
        /\ Len(rr.log) >= 2
        /\ rr.log[1].op = "gatherChanges" /\ rr.log[1].staged /\ rr.log[1].count > 0
        /\ rr.log[2].op = "getCommitContext" /\ rr.log[2].staged

\* ------------------------------ claims about the sections of the document

\* the pieces of the document that come from one query, stated from the
\* result of that query alone
SummaryPieces(result) ==
    <<SummaryHeading,
      IF Failed(result) THEN "(No summary available)" ELSE Str(result.stdout),
      SectionEnd>>

BranchPieces(result) ==
    IF Failed(result) \/ result.stdout = <<>> THEN <<>>
    ELSE <<"**Current branch:** " \o BT, Str(Trim(result.stdout)), BT \o "\n\n">>

CommitsPieces(result) ==
    IF Failed(result) \/ result.stdout = <<>> THEN <<>>
    ELSE <<"**Recent commits:**\n" \o Fence \o "\n", Str(result.stdout),
           "\n" \o Fence \o "\n">>

\* C23: the document holds its sections in the order diff, statistical
\* summary, current branch, recent commits, each built from its own query: a
\* failed branch query leaves out only the branch line, a failed log query
\* only the recent-commits block, a failed stat query puts the placeholder in
\* place of the summary body, and the other sections are as their own
\* queries give them.
C23_SectionsIndependent ==
    ContextDone =>
        /\ ret[1].ret.ok
        /\ ret[1].ret.val = Concat(ret[1].parts)
        /\ ret[1].parts =
              <<"## Git Context for Commit Message Generation\n\n",
                DiffHeading(call.staged), Str(ret[1].diff.ret.val), SectionEnd>>
              \o SummaryPieces(call.env.summary)
              \o <<"### Repository Context\n\n">>
              \o BranchPieces(call.env.branch)
              \o CommitsPieces(call.env.log)

\* the branch query failed, the stat and log queries answered: the document
\* has no branch line and has the summary and the recent commits
C23_Witness ==
    /\ ContextDone
    /\ Failed(call.env.branch)
    /\ ~Failed(call.env.summary) /\ ~Failed(call.env.log)
    /\ ~HasPart(ret[1].parts, BranchLabel)
    /\ SectionBody(ret[1].parts, SummaryHeading) = Str(SummaryText)
    /\ SectionBody(ret[1].parts, CommitsLabel) = Str(LogText)

\* C24 as claimed: when the single-file diff query fails for one file, only
\* that file is left out of the diff section: the diff of every other file
\* the filter allows, before and after it in the list, is in the document.
C24_OnlyFailedFileOmitted ==
    DiffDone =>
        \A i \in 1..Len(ret[1].files) :
            LET f == ret[1].files[i] IN
            (FilterAllows(f) /\ ~Failed(call.env.diff[Str(f)])) => DiffIncluded(f)

\* C26 as claimed: with onProgress supplied and a non-empty file list,
\* onProgress is called exactly once per file in list order, files skipped by
\* the filter included, with processedCount/totalCount*100, so the values are
\* strictly increasing and the last is 100 when no diff query fails; it is
\* never called when the file list is empty.
C26_ProgressOncePerFile ==
    (DiffDone /\ call.onProgress) =>
        /\ Len(ret[1].progress) = Len(ret[1].files)
        /\ \A i \in 1..Len(ret[1].progress) :
              ret[1].progress[i] = [num |-> i * 100, den |-> Len(ret[1].files)]
        /\ ret[1].files = <<>> => ret[1].progress = <<>>

\* ------------------------------------------ claims about the session state

\* the message a run stores: extractCommitMessage of its response
StoredMessage(rr) == Str(ExtractCommitMessage(rr.response[1]))

SessionState == <<previousGitContext, previousCommitMessage>>

\* run q waits with its message (in the delays of the progress ramp) while
\* the run that has just ended stored its own: the completion of that run
\* settled after the completion of q
WritesAfterLaterCompletion(q) ==
    /\ run[q].pc = "awaitMessage" /\ run[q].kind = "vscode"
    /\ ret # <<>> /\ ret[1].outcome = "success"
    /\ q \in ret[1].settledAfter

C25_CompletionOrder_Step ==
    \A q \in Runs :
        (WritesAfterLaterCompletion(q) /\ run'[q].pc = "idle") =>
            /\ previousGitContext' = ret[1].gitContextString
            /\ previousCommitMessage' = StoredMessage(ret[1])

\* C25 as claimed: after two overlapping runs have both succeeded, the session
\* state is that of the run whose completion call settled last, also when the
\* run whose completion call settled first stores its message after it.
C25_LastCompletionWins == [][C25_CompletionOrder_Step]_vars

\* whenever a run resumes with its message, whatever the session state holds
\* and whatever another run is doing, the session state becomes the document
\* and the message of that run, and no other run is touched
C25_Step ==
    \A r \in Runs :
        (run[r].pc = "awaitMessage" /\ run'[r].pc # "awaitMessage") =>
            /\ ret' # <<>> /\ ret'[1].outcome = "success"
            /\ previousGitContext' = run[r].gitContextString
            /\ previousCommitMessage' = StoredMessage(ret'[1])
            /\ previousCommitMessage' = run[r].generatedMessage[1]
            /\ \A q \in Runs \ {r} : run'[q] = run[q]

\* C25, amended: overlapping runs of one provider are not excluded from one
\* another and share the session state: after both have succeeded,
\* previousGitContext and previousCommitMessage are those of the run that
\* stored them last, that is the run that resumed last with its message
\* (after the delays of its progress ramp, in the interactive path), whichever
\* run started first and whichever completion call settled last.
C25_LastWriterWins == [][C25_Step]_vars

\* the run whose completion settled last has stored its document and message;
\* the interactive run whose completion settled first still waits in its ramp
\* with another document and another message, which it will store after it
C25_Witness ==
    \E q \in Runs :
        /\ WritesAfterLaterCompletion(q)
        /\ SessionState = <<ret[1].gitContextString, StoredMessage(ret[1])>>
        /\ run[q].gitContextString # ret[1].gitContextString
        /\ run[q].generatedMessage[1] # StoredMessage(ret[1])

\* the session state changes only in a step that ends a run with success,
\* and then both fields become the document and the message of that run
C29_Step ==
    SessionState' # SessionState =>
        /\ ret' # <<>>
        /\ ret'[1].outcome = "success"
        /\ previousGitContext' = ret'[1].gitContextString
        /\ previousCommitMessage' = StoredMessage(ret'[1])

\* C29: in every reachable state, overlapping runs included,
\* previousGitContext and previousCommitMessage are both null or are the
\* context document and the post-processed message of one and the same
\* successful run, never the document of one run with the message of another.
C29_SessionPaired ==
    /\ [](previousGitContext = Null <=> previousCommitMessage = Null)
    /\ [](\A rr \in EndedRuns :
            rr.outcome = "success" =>
                SessionState = <<rr.gitContextString, StoredMessage(rr)>>)
    /\ [][C29_Step]_vars

\* a run has stored its pair while an overlapping run works from another
\* document
C29_Witness ==
    \E rr \in EndedRuns : \E r \in Runs :
        /\ rr.outcome = "success"
        /\ run[r].pc \in {"awaitCompletion", "awaitMessage"}
        /\ run[r].gitContextString # rr.gitContextString
        /\ SessionState = <<rr.gitContextString, StoredMessage(rr)>>

\* a step that ends a run without success leaves the session state as it
\* is, the session state is written only when a completion call has
\* succeeded, and a prompt built while the stored document equals the run's
\* document carries the directive with the stored message
C30_Step ==
    /\ (ret' # <<>> /\ ret'[1].outcome # "success") =>
          UNCHANGED <<previousGitContext, previousCommitMessage>>
    /\ SessionState' # SessionState =>
          /\ ret' # <<>> /\ ret'[1].outcome = "success"
          /\ Invoked(ret'[1], "complete") /\ ret'[1].response # <<>>
    /\ \A r \in Runs :
          (run[r].pc = "awaitPrompt" /\ run'[r].pc = "awaitBuilt"
              /\ previousGitContext = run[r].gitContextString
              /\ previousCommitMessage # Null) =>
              HasDirective(run'[r].prompt[1], previousCommitMessage)

\* C30: a run that ends with 'no changes' or with a failure of gathering,
\* context building or completion leaves previousGitContext and
\* previousCommitMessage unchanged; they are written only by a run whose
\* completion call succeeded, so a failed run between two successful runs on
\* the same document does not switch the differ-on-repeat directive off.
C30_FailureKeepsSession == [][C30_Step]_vars

\* after a successful run, a run on the same document has failed in its
\* completion call, and the session state still is that of the first
C30_Witness ==
    \E rr \in EndedRuns :
        /\ rr.outcome = "failed"
        /\ Invoked(rr, "complete")
        /\ previousCommitMessage # Null
        /\ previousGitContext = rr.gitContextString
        /\ HasDirective(rr.prompt[1], previousCommitMessage)

\* ------------------------------------------- claims about the progress bar

InProgressCall == call.fn = "callAIForCommitMessageWithProgress"

\* x <= y
AtMost(x, y) == ~Less(y, x)

\* what is left of the ceiling
LeftOfCeiling(used) == Minus(NumberOf(20), used)

\* increment is min(max(r*r*1.0 + 0.05, 0.05), 20 - used) with
\* r = (20 - used)/20, up to the rounding of the operations.  With
\* left = 20 - used the claimed amount is min(left*left/400 + 1/20, left);
\* the two sides are compared 400-fold and without rounding, as natural
\* numbers in units of 2^(2 * exponent of left), within one part in 2^49.
ClaimedWithin(used, increment) ==
    \E left \in {LeftOfCeiling(used)} :
        LET unit == 2 * left.exponent
            formula == NatPlus(NatTimes(left.significand, left.significand),
                               ShiftLeft(NatOf(20), 0 - unit))
            ceiling == ShiftLeft(Scaled(Scaled(left.significand, 20), 20),
                                 left.exponent - unit)
            slack == ShiftRight(formula, 49)
        IN  IF increment = left
            THEN ~NatLess(NatPlus(formula, slack), ceiling)
            ELSE /\ increment.significand # <<>> /\ increment.sign = 1
                 /\ increment.exponent >= unit
                 /\ \E got \in {ShiftLeft(Scaled(Scaled(increment.significand, 20), 20),
                                          increment.exponent - unit)} :
                       /\ ~NatLess(NatPlus(got, slack), formula)
                       /\ ~NatLess(NatPlus(formula, slack), got)
                       /\ ~NatLess(NatPlus(ceiling, slack), formula)

\* a step of the timer callback (it writes the increment it has reported)
\* adds that increment to what the ticks have used; the increment is the
\* claimed amount, it is not negative, not larger than that of the callback
\* before it, and not larger than what was left of the ceiling
C27_Step ==
    (InProgressCall /\ call'.increment # call.increment) =>
        LET increment == call'.increment[1] IN
        /\ call'.totalProgressUsed = Plus(call.totalProgressUsed, increment)
        /\ ClaimedWithin(call.totalProgressUsed, increment)
        /\ AtMost(Zero, increment)
        /\ call.increment # <<>> => AtMost(increment, call.increment[1])
        /\ AtMost(increment, LeftOfCeiling(call.totalProgressUsed))

\* C27: each tick of the synthetic progress adds
\* min(max(r*r*1.0 + 0.05, 0.05), 20 - used) with r = (20 - used)/20:
\* successive increments do not grow, none is negative, and what the ticks
\* have reported together never exceeds the ceiling of 20.
C27_DecayingUnderCeiling ==
    /\ [](InProgressCall =>
             /\ AtMost(Zero, call.totalProgressUsed)
             /\ AtMost(call.totalProgressUsed, NumberOf(20)))
    /\ [][C27_Step]_vars

\* the ceiling is reached by a tick whose increment was what was left, less
\* than 0.05 and more than 0, and a later tick has reported 0
C27_Witness ==
    /\ InProgressCall
    /\ call.totalProgressUsed = NumberOf(20)
    /\ call.increment = <<Zero>>
    /\ call.timer = "live"

RECURSIVE SumOf(_)
SumOf(q) == IF q = <<>> THEN Zero ELSE Plus(Head(q), SumOf(Tail(q)))

\* C28 as claimed: the increments reported in one interactive run (10 on
\* start, the increments of the diff section, each positive and at most 70
\* together, the ticks, and the unit steps of the final ramp) never add up to
\* more than 100, for any timing of the completion call relative to the
\* ticks, ticks during the final ramp included.
C28_TotalAtMost100 ==
    InProgressCall =>
        /\ \A k \in 1..Len(call.before) : Less(Zero, call.before[k])
        /\ AtMost(SumOf(Tail(call.before)), NumberOf(70))
        /\ AtMost(Plus(Plus(SumOf(call.before), call.totalProgressUsed),
                       NumberOf(call.unitSteps)),
                  NumberOf(100))

\* --------------------------------------------- claims about overlapping runs

AssemblerOps == {"gatherChanges", "getCommitContext"}

\* C31 as claimed: every call a run makes on the Assembler (the staged query,
\* the unstaged query, getCommitContext) is executed by the Assembler bound to
\* the workspace root of that run, also when runs for different roots overlap.
C31_OwnRootAssembler ==
    \A rr \in RunRecords :
        \A i \in 1..Len(rr.log) :
            rr.log[i].op \in AssemblerOps =>
                rr.log[i].root = Str(rr.workspacePath)

\* an interactive run ends with a message: the input box of the repository
\* it resolved holds the message and no other input box has changed
C32_Step ==
    \A r \in Runs :
        (/\ run[r].pc = "awaitMessage" /\ run[r].kind = "vscode"
         /\ run'[r].pc = "idle" /\ ret' # <<>> /\ ret'[1].outcome = "success") =>
            inputBox' = [inputBox EXCEPT
                            ![Str(run[r].workspacePath)] = StoredMessage(ret'[1])]

\* C32 as claimed: the message of an interactive run is written to the input
\* box of the repository this same run resolved, also when a second
\* interactive run for another repository has started before the delivery.
C32_DeliveredToOwnRepository == [][C32_Step]_vars

\* ------------------------------------------ claims about runs after dispose()

NoGitService == "Failed to initialize Git service"

\* the run a step has started: it has ended at once or it waits in its slot
StartedRun == IF ret' # <<>> THEN ret'[1]
              ELSE run'[CHOOSE r \in Runs : run'[r] # run[r]]

\* the catch clause of a run is reached: the run ends as failed with the
\* message of what was thrown, as the error of its result (programmatic) or
\* as its one error notification (interactive); no call is made, no service
\* is constructed
C33_Caught ==
    \A r \in Runs :
        (run[r].pc = "awaitCatch" /\ run'[r] # run[r]) =>
            /\ ret' # <<>> /\ ret'[1].outcome = "failed"
            /\ ret'[1].thrown = run[r].thrown /\ ret'[1].log = run[r].log
            /\ services' = services /\ gitService' = gitService
            /\ ret'[1].kind = "external" =>
                   ret'[1].result
                       = <<[message |-> "", error |-> ErrorMessage(run[r].thrown[1])]>>
            /\ ret'[1].kind = "vscode" =>
                   ErrorNotifications(ret'[1])
                       = <<[kind |-> "error", text |-> ErrorMessage(run[r].thrown[1])]>>

\* a request that reaches gatherGitChanges on a provider that was disposed
\* after a root was bound
C33_Step ==
    (/\ starts' = starts + 1
     /\ gitService = 0 /\ currentWorkspaceRoot # Null
     /\ StartedRun.kind # "direct"
     /\ StartedRun.outcome # "rejected") =>
        IF Str(StartedRun.workspacePath) = currentWorkspaceRoot
        THEN /\ services' = services /\ gitService' = 0
             /\ StartedRun.pc = "awaitCatch"
             /\ StartedRun.log = <<>>
             /\ StartedRun.thrown = <<Error(NoGitService)>>
        ELSE /\ Len(services') = Len(services) + 1
             /\ gitService' = Len(services')
             /\ services'[gitService'] =
                    [workspaceRoot |-> StartedRun.workspacePath, disposed |-> FALSE]
             /\ StartedRun.log # <<>>

\* C33: after dispose() a request for the root that was bound before the
\* dispose constructs no Assembler and makes no git call, it fails with
\* 'Failed to initialize Git service' (the error of the result in the
\* programmatic path); a request for another root constructs a fresh
\* Assembler. No call is ever made on a disposed Assembler (a call of
\* getCommitContext made before the dispose goes on to its end).
C33_NoServiceAfterDispose ==
    /\ [](\A rr \in RunRecords : \A i \in 1..Len(rr.log) :
              rr.log[i].op \in AssemblerOps => ~rr.log[i].disposed)
    /\ [][C33_Step /\ C33_Caught]_vars

\* a programmatic request for the root bound before the dispose has failed
C33_Witness ==
    /\ EndedRuns # {}
    /\ gitService = 0 /\ services # <<>>
    /\ \A i \in 1..Len(services) : services[i].disposed
    /\ \E rr \in EndedRuns :
          /\ rr.kind = "external"
          /\ Str(rr.workspacePath) = currentWorkspaceRoot
          /\ rr.result = <<[message |-> "", error |-> NoGitService]>>
          /\ rr.log = <<>>

\* ------------------------------------------------- claims about the sinks

\* an interactive run that has passed target resolution is in flight
Interactive(r) == run[r].pc # "idle" /\ run[r].kind = "vscode"

\* a step that ends run r with a message
Delivers(r) ==
    /\ run[r].pc = "awaitMessage"
    /\ run'[r].pc = "idle" /\ ret' # <<>> /\ ret'[1].outcome = "success"

\* a step that is a direct call of setCommitMessage
DirectCall == ret' # <<>> /\ ret'[1].kind = "direct" /\ starts' = starts + 1

\* the step has taken the clipboard branch: the clipboard is written, the
\* notice of the fallback is shown or its error is thrown
ClipboardBranch ==
    \/ clipboard' # clipboard
    \/ /\ ret' # <<>>
       /\ \/ \E k \in 1..Len(ret'[1].shown) : ret'[1].shown[k].text = ClipboardNotice
          \/ ret'[1].thrown = <<Error("Failed to set commit message")>>

\* a sink is written only by the delivery of an interactive run or by a
\* direct call; the delivery writes the input box of the stored repository
\* and leaves the clipboard alone; the clipboard branch is taken only by a
\* direct call on a provider that has no repository stored
C34_Step ==
    /\ (inputBox' # inputBox \/ clipboard' # clipboard) =>
            \/ \E r \in Runs : Interactive(r) /\ Delivers(r)
            \/ DirectCall
    /\ \A r \in Runs :
          (Interactive(r) /\ Delivers(r)) =>
              /\ targetRepository # Null
              /\ inputBox' = [inputBox EXCEPT
                                 ![targetRepository] = StoredMessage(ret'[1])]
    /\ ClipboardBranch => DirectCall /\ targetRepository = Null
    /\ (DirectCall /\ targetRepository = Null) =>
            ClipboardBranch /\ inputBox' = inputBox

\* C34: in generateCommitMessageVsCode the clipboard fallback is never taken:
\* when a run reaches delivery a target repository has been resolved and
\* stored, so the message goes to the input box of a repository; the
\* clipboard branch is taken only by a direct call of setCommitMessage on a
\* provider that has never stored a resolved repository. The programmatic
\* path writes to no sink.
C34_NoClipboardInRuns ==
    /\ [](\A r \in Runs : Interactive(r) => targetRepository # Null)
    /\ [][C34_Step]_vars

\* a direct call on the new provider has copied its message to the clipboard;
\* the interactive run started after it has delivered to the input box of its
\* repository and has left the clipboard as the direct call wrote it
C34_Witness ==
    /\ starts = 2
    /\ clipboard \in DirectMessages
    /\ \E rr \in EndedRuns :
          /\ rr.kind = "vscode" /\ rr.outcome = "success"
          /\ targetRepository # Null
          /\ StoredMessage(rr) # ""
          /\ StoredMessage(rr) # clipboard
          /\ inputBox[targetRepository] = StoredMessage(rr)
          /\ \A b \in Repos \ {targetRepository} : inputBox[b] = ""
          /\ \A k \in 1..Len(rr.shown) : rr.shown[k].text # ClipboardNotice

====
